---- MODULE Spec2Model ----
(***************************************************************************)
(* Model of the payload codec of ttn-app: the template packer of the       *)
(* simulator shell (src/ttn-sim.py, and its earlier copy src/paste.py) and *)
(* the JavaScript decoder generator (src/js_decoder_generator.py).         *)
(*                                                                         *)
(* Python values are records [k, neg, mag, s, exp]:                        *)
(*   k = "int"   : an int of sign neg and magnitude mag, mag being the     *)
(*                 base-256 digits, most significant first, no leading 0   *)
(*                 (Python ints are unbounded; 64-bit fields need them);   *)
(*   k = "str"   : a str, s its characters;                                *)
(*   k = "float" : the float (-1)^neg * 2^exp, or 0.0;                     *)
(*   k = "none"  : None.                                                   *)
(* Bytes objects are sequences over 0..255; texts are sequences of         *)
(* one-character strings.  A dict is a function on the set of its keys.    *)
(***************************************************************************)
EXTENDS Integers, Sequences, FiniteSets, TLC

VARIABLES
    impl,            \* which copy of the shell runs: "ttn-sim" or "paste"
    native_long,     \* sizeof(long) of the machine: struct.calcsize('l')
    template,        \* the template document handed to the packer and the generator
    generated_data,  \* the value set handed to the packer
    generated_names, \* the names _generate_payload_logic generated a value for, in order
    pc,              \* where the run is
    field_idx,       \* _pack_generated_data: index in _field_order of the next field
    payload_bytes,   \* _pack_generated_data: the bytes accumulated so far
    packed,          \* _pack_generated_data: the bytes of the field packed last
    result,          \* what _pack_generated_data returned: Ok(bytes), or Fail for None
    decoder,         \* what generate_decoder_function returned, or Raised
    decoded,         \* what the generated decodeUplink returned, or Thrown
    payload_settings,        \* self.payload_settings: a dict
    payload_json_template,   \* self.payload_json_template: a template, or None
    current_application_id,  \* self.current_application_id
    current_device_id,       \* self.current_device_id
    periodic_interval,       \* self.periodic_interval
    raw_payload,     \* _execute_one_simulation: what _generate_payload_logic returned
    load_message,    \* what _load_payload_template_logic printed last: "loaded",
                     \* "error", or "" before the first load
    loaded_sim,      \* self.loaded_sim_type, _common_args, _flags, _description and
                     \* _config_file, as the fields of one record
    periodic_thread, \* self.periodic_thread: 0 for None, or the number of a thread
    stop_event,      \* self.stop_event: 0 for None, or the number of an event
    threads,         \* the threads started so far: where each is in _periodic_sim_loop
    events,          \* the threading.Event objects made so far: whether each is set
    cmd,             \* the command thread: "ready" for a command, in a command, "exited"
    uplink,          \* the locals of the running _execute_one_simulation
    cli_calls        \* the command lines the last _execute_one_simulation handed to
                     \* run_ttn_cli_logic

\* the attributes of the shell
shell_vars == <<payload_settings, payload_json_template, current_application_id,
                current_device_id, periodic_interval>>

\* the simulation configuration, the periodic simulation and the uplink
sim_vars == <<loaded_sim, periodic_thread, stop_event, threads, events, cmd,
              uplink, cli_calls>>

vars == <<impl, native_long, template, generated_data, generated_names,
          pc, field_idx, payload_bytes, packed, result, decoder, decoded,
          shell_vars, raw_payload, load_message, sim_vars>>

\* ------------------------------------------------------------------------
\* Python values
\* ------------------------------------------------------------------------
IntV(neg, mag) == [k |-> "int", neg |-> neg, mag |-> mag, s |-> <<>>, exp |-> 0]

StrV(s) == [k |-> "str", neg |-> FALSE, mag |-> <<>>, s |-> s, exp |-> 0]

\* a float is (-1)^neg * 2^exp when mag = <<1>>, and 0.0 when mag = <<>>
FloatV(neg, exp) == [k |-> "float", neg |-> neg, mag |-> <<1>>, s |-> <<>>, exp |-> exp]

FloatZero == [k |-> "float", neg |-> FALSE, mag |-> <<>>, s |-> <<>>, exp |-> 0]

NoneV == [k |-> "none", neg |-> FALSE, mag |-> <<>>, s |-> <<>>, exp |-> 0]

\* ------------------------------------------------------------------------
\* Byte sequences as numbers
\* ------------------------------------------------------------------------
Reverse(b) == [i \in 1..Len(b) |-> b[Len(b) + 1 - i]]

Zeros(n) == [i \in 1..n |-> 0]

Ones(n) == [i \in 1..n |-> 255]

RECURSIVE StripZeros(_)
StripZeros(b) ==
    IF b = <<>> THEN b
    ELSE IF b[1] = 0 THEN StripZeros(Tail(b)) ELSE b

Front(b) == SubSeq(b, 1, Len(b) - 1)

Min(a, b) == IF a < b THEN a ELSE b

\* b + 1 modulo 256^Len(b), most significant byte first
RECURSIVE Inc(_)
Inc(b) ==
    IF b = <<>> THEN b
    ELSE IF b[Len(b)] = 255 THEN Inc(Front(b)) \o <<0>>
         ELSE Front(b) \o <<b[Len(b)] + 1>>

Complement(b) == [i \in 1..Len(b) |-> 255 - b[i]]

TwosComplement(b) == Inc(Complement(b))

PadLeft(mag, w) == Zeros(w - Len(mag)) \o mag

\* the w-byte big-endian two's-complement (or plain) image of an int
to_bytes(v, w) ==
    IF v.neg THEN TwosComplement(PadLeft(v.mag, w)) ELSE PadLeft(v.mag, w)

\* the int a big-endian byte sequence stands for
from_bytes(b, signed) ==
    IF signed /\ b # <<>> /\ b[1] >= 128
    THEN IntV(TRUE, StripZeros(TwosComplement(b)))
    ELSE IntV(FALSE, StripZeros(b))

\* -2^(8w-1) <= v <= 2^(8w-1)-1 (signed), 0 <= v <= 2^(8w)-1 (unsigned)
in_range(v, w, signed) ==
    IF signed
    THEN \/ Len(v.mag) < w
         \/ /\ Len(v.mag) = w
            /\ \/ v.mag[1] < 128
               \/ v.neg /\ v.mag = <<128>> \o Zeros(w - 1)
    ELSE ~v.neg /\ Len(v.mag) <= w

\* ------------------------------------------------------------------------
\* Characters
\* ------------------------------------------------------------------------
HEX_VALUE ==
    [c \in {"0","1","2","3","4","5","6","7","8","9"} |->
        CASE c = "0" -> 0 [] c = "1" -> 1 [] c = "2" -> 2 [] c = "3" -> 3
          [] c = "4" -> 4 [] c = "5" -> 5 [] c = "6" -> 6 [] c = "7" -> 7
          [] c = "8" -> 8 [] c = "9" -> 9]
    @@ [c \in {"a","b","c","d","e","f"} |->
        CASE c = "a" -> 10 [] c = "b" -> 11 [] c = "c" -> 12
          [] c = "d" -> 13 [] c = "e" -> 14 [] c = "f" -> 15]
    @@ [c \in {"A","B","C","D","E","F"} |->
        CASE c = "A" -> 10 [] c = "B" -> 11 [] c = "C" -> 12
          [] c = "D" -> 13 [] c = "E" -> 14 [] c = "F" -> 15]

HEX_DIGITS == DOMAIN HEX_VALUE

DECIMAL_DIGITS == {"0","1","2","3","4","5","6","7","8","9"}

DIGIT_CHAR == <<"0","1","2","3","4","5","6","7","8","9">>

WHITESPACE == {" "}

\* "".join(chr(i) for i in range(32, 127)): the printable ASCII characters;
\* "U+0060" is the one character grave accent
ASCII_PRINTABLE ==
    <<" ", "!", "\"", "#", "$", "%", "&", "'", "(", ")", "*", "+", ",", "-", ".", "/",
      "0", "1", "2", "3", "4", "5", "6", "7", "8", "9", ":", ";", "<", "=", ">", "?",
      "@", "A", "B", "C", "D", "E", "F", "G", "H", "I", "J", "K", "L", "M", "N", "O",
      "P", "Q", "R", "S", "T", "U", "V", "W", "X", "Y", "Z", "[", "\\", "]", "^", "_",
      "U+0060", "a", "b", "c", "d", "e", "f", "g", "h", "i", "j", "k", "l", "m", "n", "o",
      "p", "q", "r", "s", "t", "u", "v", "w", "x", "y", "z", "{", "|", "}", "~">>

\* code points of the characters the model's texts are written with;
\* "U+00E9" is the one character e-acute, outside ASCII
CODE_POINT ==
    [c \in {ASCII_PRINTABLE[i] : i \in 1..Len(ASCII_PRINTABLE)} |->
        31 + CHOOSE i \in 1..Len(ASCII_PRINTABLE) : ASCII_PRINTABLE[i] = c]
    @@ ("U+00E9" :> 233)

\* ------------------------------------------------------------------------
\* str(value)
\* ------------------------------------------------------------------------
\* quotient and remainder of a base-256 magnitude divided by ten
RECURSIVE DivMod10(_, _, _)
DivMod10(mag, q, r) ==
    IF mag = <<>> THEN [q |-> q, r |-> r]
    ELSE DivMod10(Tail(mag), Append(q, (r * 256 + mag[1]) \div 10),
                  (r * 256 + mag[1]) % 10)

RECURSIVE Decimal(_)
Decimal(mag) ==
    IF mag = <<>> THEN <<>>
    ELSE LET d == DivMod10(mag, <<>>, 0)
         IN  Decimal(StripZeros(d.q)) \o <<DIGIT_CHAR[d.r + 1]>>

\* repr of the powers of two the model's floats are
FloatText(v) ==
    IF v.mag = <<>> THEN <<"0", ".", "0">>
    ELSE (IF v.neg THEN <<"-">> ELSE <<>>)
         \o (CASE v.exp = -1 -> <<"0", ".", "5">>
               [] v.exp = 0 -> <<"1", ".", "0">>
               [] v.exp = 1 -> <<"2", ".", "0">>)

str(v) ==
    CASE v.k = "str" -> v.s
      [] v.k = "none" -> <<"N", "o", "n", "e">>
      [] v.k = "float" -> FloatText(v)
      [] v.k = "int" ->
            IF v.mag = <<>> THEN <<"0">>
            ELSE (IF v.neg THEN <<"-">> ELSE <<>>) \o Decimal(v.mag)

\* ------------------------------------------------------------------------
\* struct: format strings, calcsize, pack
\* ------------------------------------------------------------------------
ORDER_CHARS == {"@", "=", "<", ">", "!"}

INT_CODES == {"b", "B", "h", "H", "i", "I", "l", "L", "q", "Q"}

SIGNED_CODES == {"b", "h", "i", "l", "q"}

FLOAT_CODES == {"e", "f", "d"}

\* sizes with a byte-order prefix ("standard size")
standard_size(c) ==
    CASE c \in {"b", "B"} -> 1
      [] c \in {"h", "H", "e"} -> 2
      [] c \in {"i", "I", "l", "L", "f"} -> 4
      [] c \in {"q", "Q", "d"} -> 8

\* sizes without a prefix ("native size"): a C long is native_long bytes
native_size(c) ==
    IF c \in {"l", "L"} THEN native_long ELSE standard_size(c)

fmt_order(fmt) ==
    IF fmt # <<>> /\ fmt[1] \in ORDER_CHARS THEN fmt[1] ELSE "@"

fmt_body(fmt) ==
    IF fmt # <<>> /\ fmt[1] \in ORDER_CHARS THEN Tail(fmt) ELSE fmt

\* int(text) for a text of decimal digits; -1 stands for ValueError
RECURSIVE ParseDigits(_, _)
ParseDigits(t, acc) ==
    IF t = <<>> THEN acc
    ELSE IF t[1] \in DECIMAL_DIGITS
         THEN ParseDigits(Tail(t), acc * 10 + HEX_VALUE[t[1]])
         ELSE -1

\* the repeat count in front of a struct code: decimal digits only
struct_count(t) == IF t = <<>> THEN -1 ELSE ParseDigits(t, 0)

RECURSIVE StripBlanks(_)
StripBlanks(t) ==
    IF t = <<>> THEN t
    ELSE IF t[1] \in WHITESPACE THEN StripBlanks(Tail(t))
    ELSE IF t[Len(t)] \in WHITESPACE THEN StripBlanks(Front(t))
    ELSE t

\* int(text): blanks around, an optional sign, then decimal digits that
\* single underscores may separate; ok = FALSE stands for ValueError
int(t) ==
    LET u == StripBlanks(t)
        signed == u # <<>> /\ u[1] \in {"+", "-"}
        body == IF signed THEN Tail(u) ELSE u
        digits == SelectSeq(body, LAMBDA c : c # "_")
        placed == /\ body # <<>>
                  /\ body[1] # "_" /\ body[Len(body)] # "_"
                  /\ \A j \in 1..(Len(body) - 1) : body[j] # "_" \/ body[j + 1] # "_"
    IN  IF placed /\ ParseDigits(digits, 0) >= 0
        THEN [ok |-> TRUE,
              n |-> IF signed /\ u[1] = "-" THEN 0 - ParseDigits(digits, 0)
                    ELSE ParseDigits(digits, 0)]
        ELSE [ok |-> FALSE, n |-> 0]

is_code(body) == Len(body) = 1 /\ body[1] \in INT_CODES \cup FLOAT_CODES

is_counted_s(body) ==
    body # <<>> /\ body[Len(body)] = "s" /\ (Len(body) = 1 \/ struct_count(Front(body)) >= 0)

\* struct.calcsize(fmt) for a format of one item (a code, or a counted 's');
\* -1 stands for struct.error
calcsize(fmt) ==
    LET body == fmt_body(fmt)
    IN  IF body = <<>> THEN 0
        ELSE IF is_code(body)
             THEN IF fmt_order(fmt) = "@" THEN native_size(body[1])
                  ELSE standard_size(body[1])
        ELSE IF is_counted_s(body)
             THEN IF Len(body) = 1 THEN 1 ELSE struct_count(Front(body))
        ELSE -1

\* IEEE 754 image, most significant byte first, of a power of two or of 0.0
float_bytes(c, v) ==
    LET s == IF v.neg THEN 128 ELSE 0
    IN  IF v.mag = <<>> THEN Zeros(standard_size(c))
        ELSE CASE c = "e" -> <<s + (v.exp + 15) * 4, 0>>
               [] c = "f" -> <<s + ((v.exp + 127) \div 2),
                               ((v.exp + 127) % 2) * 128, 0, 0>>
               [] c = "d" -> <<s + ((v.exp + 1023) \div 16),
                               ((v.exp + 1023) % 16) * 16, 0, 0, 0, 0, 0, 0>>

Fail == [ok |-> FALSE, bytes |-> <<>>]

Ok(b) == [ok |-> TRUE, bytes |-> b]

\* the bytes laid out in the order the format's prefix asks for
\* ('@' and '=' are the machine's order, little-endian on the machines
\* the shell runs on)
in_order(order, big) == IF order \in {">", "!"} THEN big ELSE Reverse(big)

\* the low w bytes of the two's-complement image of an int of any size
wrap_bytes(v, w) ==
    LET n == IF Len(v.mag) > w THEN Len(v.mag) + 1 ELSE w + 1
        image == to_bytes(v, n)
    IN  SubSeq(image, n - w + 1, n)

\* a pack that wraps an int modulo 2^(8w) instead of refusing it
struct_pack_wrapping(fmt, v) ==
    LET body == fmt_body(fmt)
        order == fmt_order(fmt)
        c == body[1]
        w == calcsize(fmt)
    IN  IF ~is_code(body) THEN Fail
        ELSE IF c \in INT_CODES
             THEN IF v.k = "int" THEN Ok(in_order(order, wrap_bytes(v, w))) ELSE Fail
        ELSE IF v.k = "float" THEN Ok(in_order(order, float_bytes(c, v)))
        ELSE Fail

\* struct.pack(fmt, v) with one argument; Fail stands for struct.error
struct_pack(fmt, v) ==
    LET body == fmt_body(fmt)
        order == fmt_order(fmt)
        c == body[1]
        w == calcsize(fmt)
    IN  IF ~is_code(body) THEN Fail
        ELSE IF c \in INT_CODES
             THEN IF v.k = "int" /\ in_range(v, w, c \in SIGNED_CODES)
                  THEN Ok(in_order(order, to_bytes(v, w)))
                  ELSE Fail
        ELSE IF v.k = "float" THEN Ok(in_order(order, float_bytes(c, v)))
        ELSE Fail

\* ------------------------------------------------------------------------
\* str.encode and bytes.fromhex
\* ------------------------------------------------------------------------
utf8(cp) == IF cp < 128 THEN <<cp>> ELSE <<192 + (cp \div 64), 128 + (cp % 64)>>

RECURSIVE encode(_, _)
encode(s, enc) ==
    IF s = <<>> THEN Ok(<<>>)
    ELSE LET cp == CODE_POINT[s[1]]
             rest == encode(Tail(s), enc)
         IN  CASE enc = "utf-8" ->
                    IF rest.ok THEN Ok(utf8(cp) \o rest.bytes) ELSE Fail
               [] enc = "latin-1" ->
                    IF rest.ok THEN Ok(<<cp>> \o rest.bytes) ELSE Fail
               [] enc = "ascii" ->
                    IF rest.ok /\ cp < 128 THEN Ok(<<cp>> \o rest.bytes) ELSE Fail
               [] OTHER -> Fail

\* bytes.fromhex(s): blanks between bytes are skipped, the two digits of a
\* byte are adjacent; Fail stands for ValueError
RECURSIVE fromhex(_)
fromhex(s) ==
    IF s = <<>> THEN Ok(<<>>)
    ELSE IF s[1] \in WHITESPACE THEN fromhex(Tail(s))
    ELSE IF Len(s) >= 2 /\ s[1] \in HEX_DIGITS /\ s[2] \in HEX_DIGITS
         THEN LET rest == fromhex(Tail(Tail(s)))
              IN  IF rest.ok
                  THEN Ok(<<HEX_VALUE[s[1]] * 16 + HEX_VALUE[s[2]]>> \o rest.bytes)
                  ELSE Fail
    ELSE Fail

\* ------------------------------------------------------------------------
\* Field definitions and templates
\* ------------------------------------------------------------------------
\* A field definition is a dict; each attribute is <<>> when the key is
\* absent and <<x>> when the key holds x.  "values" holds a dict (labels to
\* wire values) or a list.
FieldDef(type, packer, byte_order, values, encoding, length, length_bytes) ==
    [type |-> type, packer |-> packer, byte_order |-> byte_order,
     values |-> values, encoding |-> encoding, length |-> length,
     length_bytes |-> length_bytes,
     min |-> <<>>, max |-> <<>>, charset |-> <<>>, precision |-> <<>>]

\* {}
EmptyDef == FieldDef(<<>>, <<>>, <<>>, <<>>, <<>>, <<>>, <<>>)

\* dict.get(key, default)
get(attr, default) == IF attr = <<>> THEN default ELSE attr[1]

DictValues(map) == [kind |-> "dict", map |-> map, items |-> <<>>]

ListValues(items) == [kind |-> "list", map |-> <<>>, items |-> items]

\* a dict of the template document: keys is the set of its top-level keys
Template(keys, field_order, fields) ==
    [keys |-> keys, field_order |-> field_order, fields |-> fields]

\* field_defs.get(field_name, {})
field_def_of(tpl, field_name) ==
    IF field_name \in DOMAIN tpl.fields THEN tpl.fields[field_name] ELSE EmptyDef

\* Python truth of field_def.get("packer"): a non-empty text
has_packer(field_def) == field_def.packer # <<>> /\ field_def.packer[1] # <<>>

is_mapped_choice(field_def) ==
    /\ get(field_def.type, "") = "choice"
    /\ field_def.values # <<>>
    /\ field_def.values[1].kind = "dict"

\* field_def["values"].get(value): the keys of a JSON object are texts
choice_value(field_def, value) ==
    LET map == field_def.values[1].map
    IN  IF value.k = "str" /\ value.s \in DOMAIN map THEN map[value.s] ELSE NoneV

\* ------------------------------------------------------------------------
\* _pack_generated_data: one field
\* ------------------------------------------------------------------------
UPPER_CHARS == {"A", "B", "C", "D", "E", "F", "H", "I", "L", "N", "Q"}

LOWER_CHARS == {"a", "b", "c", "d", "e", "f", "g", "h", "i", "l", "n", "o",
                "q", "s", "z"}

lower_char(c) ==
    CASE c = "A" -> "a" [] c = "B" -> "b" [] c = "C" -> "c" [] c = "D" -> "d"
      [] c = "E" -> "e" [] c = "F" -> "f" [] c = "H" -> "h" [] c = "I" -> "i"
      [] c = "L" -> "l" [] c = "N" -> "n" [] c = "Q" -> "q" [] OTHER -> c

lower(t) == [i \in 1..Len(t) |-> lower_char(t[i])]

isupper(t) ==
    /\ \E i \in 1..Len(t) : t[i] \in UPPER_CHARS
    /\ \A i \in 1..Len(t) : t[i] \notin LOWER_CHARS

strip_order(packer) == SelectSeq(packer, LAMBDA c : c \notin ORDER_CHARS)

\* no prefix at all: every code is packed in native mode
bo_char_native(field_def) ==
    LET size == calcsize(strip_order(field_def.packer[1]))
    IN  [raised |-> size < 0, prefix |-> <<>>]

\* a prefix chosen the wrong way round
bo_char_swapped(field_def) ==
    LET size == calcsize(strip_order(field_def.packer[1]))
    IN  IF size < 0 THEN [raised |-> TRUE, prefix |-> <<>>]
        ELSE IF size > 1
             THEN [raised |-> FALSE,
                   prefix |-> IF get(field_def.byte_order, "big") = "big"
                              THEN <<"<">> ELSE <<">">>]
        ELSE [raised |-> FALSE, prefix |-> <<>>]

\* src/ttn-sim.py: the prefix is decided by the native size of the code;
\* [raised |-> TRUE] stands for the struct.error of calcsize
bo_char(field_def) ==
    LET size == calcsize(strip_order(field_def.packer[1]))
    IN  IF size < 0 THEN [raised |-> TRUE, prefix |-> <<>>]
        ELSE IF size > 1
             THEN [raised |-> FALSE,
                   prefix |-> IF get(field_def.byte_order, "big") = "big"
                              THEN <<">">> ELSE <<"<">>]
        ELSE [raised |-> FALSE, prefix |-> <<>>]

\* src/paste.py: the prefix is decided by the spelling of the code
byte_order_char(field_def) ==
    LET packer == field_def.packer[1]
    IN  IF \/ lower(packer) \in {<<"h">>, <<"i">>, <<"l">>, <<"q">>,
                                 <<"e">>, <<"f">>, <<"d">>}
           \/ isupper(packer)
        THEN [raised |-> FALSE,
              prefix |-> IF get(field_def.byte_order, "big") = "big"
                         THEN <<">">> ELSE <<"<">>]
        ELSE [raised |-> FALSE, prefix |-> <<>>]

order_prefix(which, field_def) ==
    IF which = "ttn-sim" THEN bo_char(field_def) ELSE byte_order_char(field_def)

\* a packer that packs 0 for a label the mapping lacks
pack_with_packer_defaulting(which, field_def, value) ==
    LET bo == order_prefix(which, field_def)
        fmt == bo.prefix \o field_def.packer[1]
        actual_val == IF is_mapped_choice(field_def)
                      THEN choice_value(field_def, value) ELSE value
    IN  IF bo.raised THEN Fail
        ELSE IF actual_val = NoneV /\ is_mapped_choice(field_def)
             THEN struct_pack(fmt, IntV(FALSE, <<>>))
        ELSE struct_pack(fmt, actual_val)

\* the branch of a field that has a packer
pack_with_packer(which, field_def, value) ==
    LET bo == order_prefix(which, field_def)
        fmt == bo.prefix \o field_def.packer[1]
        actual_val == IF is_mapped_choice(field_def)
                      THEN choice_value(field_def, value) ELSE value
    IN  IF bo.raised THEN Fail
        ELSE IF actual_val = NoneV /\ is_mapped_choice(field_def) THEN Fail
        ELSE struct_pack(fmt, actual_val)

\* a packer that cuts the text of a string field to the declared length
pack_value_fixed_length(which, field_def, value) ==
    IF has_packer(field_def) THEN pack_with_packer(which, field_def, value)
    ELSE IF get(field_def.type, "") = "string"
         THEN LET e == encode(str(value), get(field_def.encoding, "utf-8"))
                  n == get(field_def.length, Len(e.bytes))
              IN  IF e.ok THEN Ok(SubSeq(e.bytes, 1, Min(n, Len(e.bytes)))) ELSE Fail
    ELSE IF get(field_def.type, "") = "hex_string" THEN fromhex(str(value))
    ELSE Ok(<<>>)

\* a packer that refuses a field it has no encoding for
pack_value_strict(which, field_def, value) ==
    IF has_packer(field_def) THEN pack_with_packer(which, field_def, value)
    ELSE IF get(field_def.type, "") = "string"
         THEN encode(str(value), get(field_def.encoding, "utf-8"))
    ELSE IF get(field_def.type, "") = "hex_string" THEN fromhex(str(value))
    ELSE Fail

\* the body of the loop for one field whose value is present: the bytes the
\* field adds, or Fail when the function returns None at this field
pack_value(which, field_def, value) ==
    IF has_packer(field_def) THEN pack_with_packer(which, field_def, value)
    ELSE IF get(field_def.type, "") = "string"
         THEN encode(str(value), get(field_def.encoding, "utf-8"))
    ELSE IF get(field_def.type, "") = "hex_string" THEN fromhex(str(value))
    ELSE Ok(<<>>)

\* a packer that zero-fills a field the value set lacks
pack_field_zero_filled(which, tpl, data, field_name) ==
    pack_value(which, field_def_of(tpl, field_name),
               IF field_name \in DOMAIN data THEN data[field_name]
               ELSE IntV(FALSE, <<>>))

\* one turn of the loop
pack_field(which, tpl, data, field_name) ==
    IF field_name \notin DOMAIN data THEN Fail
    ELSE pack_value(which, field_def_of(tpl, field_name), data[field_name])

\* a packer that puts the new bytes in front
accumulate_in_front(acc, bytes) == bytes \o acc

\* payload_bytes += packed
accumulate(acc, bytes) == acc \o bytes

\* ------------------------------------------------------------------------
\* js_decoder_generator.py
\* ------------------------------------------------------------------------
\* a table that forgets that the unsigned 64-bit read is a BigInt too
PACKER_MAP_signed_bigint_only ==
    [c \in {"b", "B", "h", "H", "i", "I", "l", "L", "q", "Q", "f", "d"} |->
        [method |-> CASE c = "b" -> "getInt8" [] c = "B" -> "getUint8"
                      [] c = "h" -> "getInt16" [] c = "H" -> "getUint16"
                      [] c = "i" -> "getInt32" [] c = "I" -> "getUint32"
                      [] c = "l" -> "getInt32" [] c = "L" -> "getUint32"
                      [] c = "q" -> "getBigInt64" [] c = "Q" -> "getBigUint64"
                      [] c = "f" -> "getFloat32" [] c = "d" -> "getFloat64",
         byte_size |-> calcsize(<<c>>),
         returns_bigint |-> c = "q"]]

\* a table that reads every integer as unsigned
PACKER_MAP_unsigned ==
    [c \in {"b", "B", "h", "H", "i", "I", "l", "L", "q", "Q", "f", "d"} |->
        [method |-> CASE c \in {"b", "B"} -> "getUint8"
                      [] c \in {"h", "H"} -> "getUint16"
                      [] c \in {"i", "I", "l", "L"} -> "getUint32"
                      [] c \in {"q", "Q"} -> "getBigUint64"
                      [] c = "f" -> "getFloat32" [] c = "d" -> "getFloat64",
         byte_size |-> calcsize(<<c>>),
         returns_bigint |-> c \in {"q", "Q"}]]

\* PACKER_MAP: code -> (DataView method, struct.calcsize(code), BigInt?)
PACKER_MAP ==
    [c \in {"b", "B", "h", "H", "i", "I", "l", "L", "q", "Q", "f", "d"} |->
        [method |-> CASE c = "b" -> "getInt8" [] c = "B" -> "getUint8"
                      [] c = "h" -> "getInt16" [] c = "H" -> "getUint16"
                      [] c = "i" -> "getInt32" [] c = "I" -> "getUint32"
                      [] c = "l" -> "getInt32" [] c = "L" -> "getUint32"
                      [] c = "q" -> "getBigInt64" [] c = "Q" -> "getBigUint64"
                      [] c = "f" -> "getFloat32" [] c = "d" -> "getFloat64",
         byte_size |-> calcsize(<<c>>),
         returns_bigint |-> c \in {"q", "Q"}]]

in_packer_map(packer) == Len(packer) = 1 /\ packer[1] \in DOMAIN PACKER_MAP

\* one line of the generated source: what the line is (op) and the values
\* the f-string puts into it
Line(op, name, method, le, n, ty) ==
    [op |-> op, name |-> name, method |-> method, le |-> le, n |-> n, ty |-> ty]

Plain(op) == Line(op, "", "", FALSE, 0, "")

\* lines 47-59
PROLOGUE ==
    <<Plain("function decodeUplink(input) {"), Plain("comment"), Plain("comment"),
      Plain(""), Plain("var data = {};"), Plain("var offset = 0;"),
      Plain("var buffer = Uint8Array.from(input.bytes).buffer;"),
      Plain("var view = new DataView(buffer);"), Plain("")>>

\* a return that leaves the errors key out
EPILOGUE_without_errors ==
    <<Plain("return {"), Plain("data: data,"), Plain("warnings: []"),
      Plain("};"), Plain("}")>>

\* lines 131-136
EPILOGUE ==
    <<Plain("return {"), Plain("data: data,"), Plain("warnings: [],"),
      Plain("errors: []"), Plain("};"), Plain("}")>>

\* lines 140-150
HELPER_FUNCTION ==
    <<Plain("comment"), Plain("function bytesToString(bytes) {"),
      Plain("var result = \"\";"),
      Plain("for (var i = 0; i < bytes.length; i++) {"),
      Plain("result += String.fromCharCode(bytes[i]);"), Plain("}"),
      Plain("return result;"), Plain("}"), Plain("")>>

\* the key a hex_string field is stored under: field_name + "_bytes"
bytes_key(field_name) ==
    CASE field_name = "id" -> "id_bytes"
      [] field_name = "temp" -> "temp_bytes"
      [] field_name = "extra" -> "extra_bytes"

Raised == [ok |-> FALSE, lines |-> <<>>, helper |-> FALSE]

\* the lines one field adds (lines 68-129); Raised stands for ValueError
field_lines(tpl, field_name) ==
    LET field_def == tpl.fields[field_name]
        ty == get(field_def.type, "None")
        head == <<Line("// Field:", field_name, "", FALSE, 0, ty)>>
        packer == field_def.packer[1]
    IN  IF has_packer(field_def)
        THEN IF in_packer_map(packer)
             THEN LET e == PACKER_MAP[packer[1]]
                      le == e.byte_size > 1
                            /\ get(field_def.byte_order, "big") = "little"
                  IN  [ok |-> TRUE, helper |-> FALSE,
                       lines |-> head \o
                         <<Line("// size", "", "", le, e.byte_size, ""),
                           Line(IF e.returns_bigint THEN "read.toString()" ELSE "read",
                                field_name, e.method, le, 0, ""),
                           Line("offset +=", "", "", FALSE, e.byte_size, ""),
                           Plain("")>>]
             ELSE IF packer[Len(packer)] = "s"
                  THEN IF ~int(Front(packer)).ok THEN Raised
                       ELSE [ok |-> TRUE, helper |-> TRUE,
                             lines |-> head \o
                               <<Line("// size", "", "", FALSE, int(Front(packer)).n, "string"),
                                 Line("bytesToString", field_name, "", FALSE,
                                      int(Front(packer)).n, ""),
                                 Line("offset +=", "", "", FALSE, int(Front(packer)).n, ""),
                                 Plain("")>>]
             ELSE Raised
        ELSE IF ty = "string"
             THEN IF get(field_def.length, 0) = 0 THEN Raised
                  ELSE [ok |-> TRUE, helper |-> TRUE,
                        lines |-> head \o
                          <<Line("// size", "", "", FALSE, field_def.length[1], "string"),
                            Line("bytesToString", field_name, "", FALSE,
                                 field_def.length[1], ""),
                            Line("offset +=", "", "", FALSE, field_def.length[1], ""),
                            Plain("")>>]
        ELSE IF ty = "hex_string"
             THEN IF get(field_def.length_bytes, 0) = 0 THEN Raised
                  ELSE [ok |-> TRUE, helper |-> FALSE,
                        lines |-> head \o
                          <<Line("// size", "", "", FALSE, field_def.length_bytes[1],
                                 "hex string"),
                            Plain("comment"),
                            Line("slice", bytes_key(field_name), "", FALSE,
                                 field_def.length_bytes[1], ""),
                            Line("offset +=", "", "", FALSE, field_def.length_bytes[1], ""),
                            Plain("")>>]
        ELSE [ok |-> TRUE, helper |-> FALSE, lines |-> head \o <<Plain("")>>]

\* the loop of lines 63-129 from the i-th name of _field_order on
RECURSIVE fields_loop(_, _, _)
fields_loop(tpl, i, acc) ==
    IF i > Len(tpl.field_order) THEN acc
    ELSE LET field_name == tpl.field_order[i]
         IN  IF \/ field_name \notin DOMAIN tpl.fields
                \/ tpl.fields[field_name] = EmptyDef
             THEN Raised
             ELSE LET f == field_lines(tpl, field_name)
                  IN  IF ~f.ok THEN Raised
                      ELSE fields_loop(tpl, i + 1,
                                       [ok |-> TRUE, lines |-> acc.lines \o f.lines,
                                        helper |-> acc.helper \/ f.helper])

\* a generator that prepends the helper once for every field that uses it
RECURSIVE helper_copies(_)
helper_copies(lines) ==
    IF lines = <<>> THEN <<>>
    ELSE (IF lines[1].op = "bytesToString" THEN HELPER_FUNCTION ELSE <<>>)
         \o helper_copies(Tail(lines))

generate_decoder_function_helper_per_field(tpl) ==
    IF ~({"_field_order", "fields"} \subseteq tpl.keys) THEN Raised
    ELSE LET body == fields_loop(tpl, 1, [ok |-> TRUE, lines |-> PROLOGUE,
                                          helper |-> FALSE])
         IN  IF ~body.ok THEN Raised
             ELSE [ok |-> TRUE, helper |-> body.helper,
                   lines |-> helper_copies(body.lines) \o body.lines \o EPILOGUE]

\* generate_decoder_function on a template document that was read from the
\* file: the lines of the source it returns, or Raised
generate_decoder_function(tpl) ==
    IF ~({"_field_order", "fields"} \subseteq tpl.keys) THEN Raised
    ELSE LET body == fields_loop(tpl, 1, [ok |-> TRUE, lines |-> PROLOGUE,
                                          helper |-> FALSE])
         IN  IF ~body.ok THEN Raised
             ELSE [ok |-> TRUE, helper |-> body.helper,
                   lines |-> (IF body.helper THEN HELPER_FUNCTION ELSE <<>>)
                             \o body.lines \o EPILOGUE]

\* ------------------------------------------------------------------------
\* The generated decodeUplink, run on input.bytes
\* ------------------------------------------------------------------------
JsString(units) == [k |-> "jsstr", neg |-> FALSE, mag |-> units, s |-> <<>>, exp |-> 0]

JsBytes(b) == [k |-> "bytes", neg |-> FALSE, mag |-> b, s |-> <<>>, exp |-> 0]

Thrown == [ok |-> FALSE, data |-> <<>>, warnings |-> <<>>, errors |-> <<>>]

\* bytes read by each DataView method
method_size(method) ==
    CASE method \in {"getInt8", "getUint8"} -> 1
      [] method \in {"getInt16", "getUint16"} -> 2
      [] method \in {"getInt32", "getUint32", "getFloat32"} -> 4
      [] method \in {"getBigInt64", "getBigUint64", "getFloat64"} -> 8

\* the float an IEEE 754 image stands for: sign, exponent, and the fraction
\* bits kept after the leading 1 when they are not all zero
float_of(b) ==
    LET single == Len(b) = 4
        biased == IF single THEN (b[1] % 128) * 2 + (b[2] \div 128)
                  ELSE (b[1] % 128) * 16 + (b[2] \div 16)
        frac == <<IF single THEN b[2] % 128 ELSE b[2] % 16>> \o SubSeq(b, 3, Len(b))
    IN  IF biased = 0 /\ frac = Zeros(Len(frac)) THEN FloatZero
        ELSE [k |-> "float", neg |-> b[1] >= 128,
              mag |-> IF frac = Zeros(Len(frac)) THEN <<1>> ELSE <<1>> \o frac,
              s |-> <<>>, exp |-> biased - (IF single THEN 127 ELSE 1023)]

\* view.<method>(offset, littleEndian) on a buffer that holds the bytes
data_view_get(method, b, le) ==
    LET big == IF le THEN Reverse(b) ELSE b
    IN  CASE method \in {"getInt8", "getInt16", "getInt32", "getBigInt64"} ->
                from_bytes(big, TRUE)
          [] method \in {"getUint8", "getUint16", "getUint32", "getBigUint64"} ->
                from_bytes(big, FALSE)
          [] OTHER -> float_of(big)

\* BigInt.prototype.toString(): the decimal text, as UTF-16 code units
to_string(v) == JsString([i \in 1..Len(str(v)) |-> CODE_POINT[str(v)[i]]])

\* an index of slice brought into 0..len: a negative one counts from the end
relative_index(k, len) ==
    IF k < 0 THEN (IF len + k < 0 THEN 0 ELSE len + k) ELSE Min(k, len)

\* Array.prototype.slice(offset, offset + n)
slice(bytes, offset, n) ==
    SubSeq(bytes, relative_index(offset, Len(bytes)) + 1,
           relative_index(offset + n, Len(bytes)))

\* the statements of the function body from the i-th line on
RECURSIVE run_lines(_, _, _, _, _)
run_lines(lines, i, offset, data, bytes) ==
    IF i > Len(lines) THEN Thrown
    ELSE LET l == lines[i]
         IN  CASE l.op \in {"read", "read.toString()"} ->
                    IF offset < 0 \/ offset + method_size(l.method) > Len(bytes)
                    THEN Thrown
                    ELSE LET v == data_view_get(l.method,
                                     SubSeq(bytes, offset + 1,
                                            offset + method_size(l.method)), l.le)
                         IN  run_lines(lines, i + 1, offset,
                                 (l.name :> (IF l.op = "read" THEN v ELSE to_string(v)))
                                 @@ data, bytes)
               [] l.op = "bytesToString" ->
                    run_lines(lines, i + 1, offset,
                        (l.name :> JsString(slice(bytes, offset, l.n))) @@ data, bytes)
               [] l.op = "slice" ->
                    run_lines(lines, i + 1, offset,
                        (l.name :> JsBytes(slice(bytes, offset, l.n))) @@ data, bytes)
               [] l.op = "offset +=" ->
                    run_lines(lines, i + 1, offset + l.n, data, bytes)
               [] l.op = "return {" ->
                    [ok |-> TRUE, data |-> data, warnings |-> <<>>, errors |-> <<>>]
               [] OTHER -> run_lines(lines, i + 1, offset, data, bytes)

\* where the body of decodeUplink starts in the source
body_start(lines) ==
    CHOOSE i \in 1..Len(lines) : lines[i].op = "function decodeUplink(input) {"

decodeUplink(lines, bytes) == run_lines(lines, body_start(lines) + 1, 0, <<>>, bytes)

\* ------------------------------------------------------------------------
\* The shell
\* ------------------------------------------------------------------------
\* no simulation configuration is loaded (lines 73-77)
NoSim ==
    [config_file |-> <<>>, description |-> <<>>, type |-> <<>>,
     common_args |-> <<>>, flags |-> <<>>]

\* no _execute_one_simulation is running; the runner of one is the command
\* thread (0) or the periodic thread of that number
NoUplink ==
    [runner |-> -1, payload_is_needed |-> FALSE, payload_cli_flag_name |-> "",
     cli_parts |-> <<>>, current_flags_to_use |-> <<>>]

\* lines 73-80 of __init__, and the threads of the process: the command
\* thread waits for a command, no other thread and no event exists
sim_init ==
    /\ loaded_sim = NoSim
    /\ periodic_thread = 0
    /\ stop_event = 0
    /\ threads = <<>>
    /\ events = <<>>
    /\ cmd = "ready"
    /\ uplink = NoUplink
    /\ cli_calls = <<>>

\* TTNSimulatorShell.__init__; an attribute that is None is <<>>, one that
\* holds x is <<x>>; "extra" is the set of the other keys of the dict
shell_init ==
    /\ payload_settings =
          [type |-> "random_int",
           num_bytes |-> IntV(FALSE, <<4>>),
           fixed_hex_value |-> <<"C", "A", "F", "E", "0", "1">>,
           json_template_file |-> <<>>,
           extra |-> {}]
    /\ payload_json_template = <<>>
    /\ current_application_id = <<>>
    /\ current_device_id = <<>>
    /\ periodic_interval = 30

\* ------------------------------------------------------------------------
\* _generate_value_from_field_def
\* ------------------------------------------------------------------------
\* a < b for magnitudes
mag_less_than(x, y) ==
    \/ Len(x) < Len(y)
    \/ /\ Len(x) = Len(y)
       /\ \E i \in 1..Len(x) : x[i] < y[i] /\ \A j \in 1..(i - 1) : x[j] = y[j]

\* a < b for ints
less_than(a, b) ==
    IF a.neg # b.neg THEN a.neg
    ELSE IF a.neg THEN mag_less_than(b.mag, a.mag)
    ELSE mag_less_than(a.mag, b.mag)

\* the magnitude of a natural number
RECURSIVE magnitude(_)
magnitude(n) == IF n = 0 THEN <<>> ELSE magnitude(n \div 256) \o <<n % 256>>

\* the number a magnitude writes
RECURSIVE number(_)
number(mag) == IF mag = <<>> THEN 0 ELSE number(Front(mag)) * 256 + mag[Len(mag)]

\* int(x) for a JSON value, a float truncated toward zero; ok = FALSE stands
\* for the exception
int_of(v) ==
    CASE v.k = "int" -> [ok |-> TRUE, v |-> v]
      [] v.k = "str" ->
            LET r == int(v.s)
            IN  IF r.ok
                THEN [ok |-> TRUE,
                      v |-> IF r.n < 0 THEN IntV(TRUE, magnitude(0 - r.n))
                            ELSE IntV(FALSE, magnitude(r.n))]
                ELSE [ok |-> FALSE, v |-> NoneV]
      [] v.k = "float" ->
            LET n == IF v.exp < 0 THEN number(v.mag) \div (2 ^ (0 - v.exp))
                     ELSE number(v.mag) * (2 ^ v.exp)
            IN  [ok |-> TRUE,
                 v |-> IF n = 0 THEN IntV(FALSE, <<>>) ELSE IntV(v.neg, magnitude(n))]
      [] OTHER -> [ok |-> FALSE, v |-> NoneV]

\* float(x) for the bounds the documents of the model give a float field:
\* 0, 1, 2 and the floats of the model
float_of_value(v) ==
    CASE v.k = "float" -> [ok |-> TRUE, v |-> v]
      [] v.k = "int" /\ v.mag = <<>> -> [ok |-> TRUE, v |-> FloatZero]
      [] v.k = "int" /\ v.mag = <<1>> -> [ok |-> TRUE, v |-> FloatV(v.neg, 0)]
      [] v.k = "int" /\ v.mag = <<2>> -> [ok |-> TRUE, v |-> FloatV(v.neg, 1)]
      [] OTHER -> [ok |-> FALSE, v |-> NoneV]

\* the default of 'max' (ttn-sim.py:258, paste.py:142); ok = FALSE stands
\* for the struct.error of calcsize
default_max(which, f_type, field_def) ==
    LET packer == lower(get(field_def.packer, <<>>))
        w == calcsize(packer)
    IN  IF which = "ttn-sim"
        THEN IF packer # <<>>
             THEN IF w < 0 THEN [ok |-> FALSE, v |-> NoneV]
                  ELSE [ok |-> TRUE,
                        v |-> IF f_type = "int"
                              THEN IF w = 0 THEN IntV(FALSE, <<>>)
                                   ELSE IntV(FALSE, <<127>> \o Ones(w - 1))
                              ELSE IntV(FALSE, <<1>> \o Zeros(w))]
             ELSE [ok |-> TRUE,
                   v |-> IF f_type = "int" THEN IntV(FALSE, <<127, 255, 255, 255>>)
                         ELSE IntV(FALSE, Ones(4))]
        ELSE [ok |-> TRUE,
              v |-> IF f_type = "uint" /\ field_def.packer = <<<<"B">>>>
                    THEN IntV(FALSE, <<255>>)
                    ELSE IF f_type = "uint" /\ field_def.packer = <<<<"H">>>>
                         THEN IntV(FALSE, <<255, 255>>)
                    ELSE IntV(FALSE, <<127, 255, 255, 255>>)]

\* random.randint(a, b): one of the ends stands for every outcome; NoneV
\* stands for the ValueError of an empty range, which the caller catches
randint(a, b) == IF less_than(b, a) THEN {NoneV} ELSE {a, b}

Repeat(c, n) == [i \in 1..n |-> c]

ALPHANUMERIC ==
    <<"a", "b", "c", "d", "e", "f", "g", "h", "i", "j", "k", "l", "m", "n", "o", "p",
    "q", "r", "s", "t", "u", "v", "w", "x", "y", "z", "A", "B", "C", "D", "E", "F",
    "G", "H", "I", "J", "K", "L", "M", "N", "O", "P", "Q", "R", "S", "T", "U", "V",
    "W", "X", "Y", "Z", "0", "1", "2", "3", "4", "5", "6", "7", "8", "9">>

\* digits that come in both cases
HEX_MIXED_CASE ==
    <<"0", "1", "2", "3", "4", "5", "6", "7", "8", "9", "A", "b", "C", "d", "E", "f">>

HEX_LOWER ==
    <<"0", "1", "2", "3", "4", "5", "6", "7", "8", "9", "a", "b", "c", "d", "e", "f">>

\* an alphabet that leaves the uppercase letters in when a charset is unknown
char_options_mixed_default(which, cs_type) ==
    CASE cs_type = "alphanumeric" -> ALPHANUMERIC
      [] cs_type = "alnum" /\ which = "ttn-sim" -> ALPHANUMERIC
      [] cs_type = "hex" -> HEX_LOWER
      [] cs_type = "ascii" -> ASCII_PRINTABLE
      [] OTHER -> ASCII_PRINTABLE

\* the alphabet of a charset name (char_options_map and its default)
char_options(which, cs_type) ==
    CASE cs_type = "alphanumeric" -> ALPHANUMERIC
      [] cs_type = "alnum" /\ which = "ttn-sim" -> ALPHANUMERIC
      [] cs_type = "hex" -> HEX_LOWER
      [] cs_type = "ascii" -> ASCII_PRINTABLE
      [] OTHER -> ALPHANUMERIC

\* a b a b ... of n characters
Alternate(a, b, n) == [i \in 1..n |-> IF i % 2 = 1 THEN a ELSE b]

\* a text generator that draws one character too many
random_text_one_more(options, n) ==
    {StrV(Repeat(options[i], n + 1)) : i \in 1..Len(options)}

\* "".join(random.choice(options) for _ in range(n)): the texts that repeat
\* one character of the alphabet, and those that alternate a character with
\* the next one of the alphabet, stand for every outcome
random_text(options, n) ==
    {StrV(Repeat(options[i], n)) : i \in 1..Len(options)}
        \cup {StrV(Alternate(options[i], options[(i % Len(options)) + 1], n)) :
                  i \in 1..Len(options)}

\* a generator that gives 0 to a field whose type it does not know
generate_value_zero_for_unknown(which, field_def) ==
    LET f_type == get(field_def.type, "None")
    IN  CASE f_type \in {"int", "uint"} ->
               LET min_v == int_of(get(field_def.min, IntV(FALSE, <<>>)))
                   def_max == default_max(which, f_type, field_def)
                   max_v == int_of(get(field_def.max, def_max.v))
               IN  IF min_v.ok /\ def_max.ok /\ max_v.ok
                   THEN randint(min_v.v, max_v.v) ELSE {NoneV}
          [] f_type = "float" ->
               LET min_v == float_of_value(get(field_def.min, FloatZero))
                   max_v == float_of_value(get(field_def.max, FloatV(FALSE, 0)))
                   prec == int_of(get(field_def.precision, IntV(FALSE, <<2>>)))
               IN  IF min_v.ok /\ max_v.ok /\ prec.ok
                   THEN {min_v.v, max_v.v}
                        \cup (IF min_v.v = FloatZero /\ max_v.v = FloatV(FALSE, 0)
                              THEN {FloatV(FALSE, -1)} ELSE {})
                   ELSE {NoneV}
          [] f_type = "string" ->
               random_text(char_options(which, get(field_def.charset, "ascii")),
                           get(field_def.length, 1))
          [] f_type = "hex_string" ->
               random_text(HEX_LOWER, get(field_def.length_bytes, 1) * 2)
          [] f_type = "choice" ->
               IF field_def.values = <<>> THEN {NoneV}
               ELSE LET v == field_def.values[1]
                    IN  IF v.kind = "dict"
                        THEN IF DOMAIN v.map = {} THEN {NoneV}
                             ELSE {StrV(key) : key \in DOMAIN v.map}
                        ELSE IF v.items = <<>> THEN {NoneV}
                             ELSE {v.items[i] : i \in 1..Len(v.items)}
          [] OTHER -> {IntV(FALSE, <<>>)}

\* the values _generate_value_from_field_def can return for a definition;
\* NoneV also stands for an exception caught by its except clause
generate_value_from_field_def(which, field_def) ==
    LET f_type == get(field_def.type, "None")
    IN  CASE f_type \in {"int", "uint"} ->
               LET min_v == int_of(get(field_def.min, IntV(FALSE, <<>>)))
                   def_max == default_max(which, f_type, field_def)
                   max_v == int_of(get(field_def.max, def_max.v))
               IN  IF min_v.ok /\ def_max.ok /\ max_v.ok
                   THEN randint(min_v.v, max_v.v) ELSE {NoneV}
          [] f_type = "float" ->
               LET min_v == float_of_value(get(field_def.min, FloatZero))
                   max_v == float_of_value(get(field_def.max, FloatV(FALSE, 0)))
                   prec == int_of(get(field_def.precision, IntV(FALSE, <<2>>)))
               IN  IF min_v.ok /\ max_v.ok /\ prec.ok
                   THEN {min_v.v, max_v.v}
                        \cup (IF min_v.v = FloatZero /\ max_v.v = FloatV(FALSE, 0)
                              THEN {FloatV(FALSE, -1)} ELSE {})
                   ELSE {NoneV}
          [] f_type = "string" ->
               random_text(char_options(which, get(field_def.charset, "ascii")),
                           get(field_def.length, 1))
          [] f_type = "hex_string" ->
               random_text(HEX_LOWER, get(field_def.length_bytes, 1) * 2)
          [] f_type = "choice" ->
               IF field_def.values = <<>> THEN {NoneV}
               ELSE LET v == field_def.values[1]
                    IN  IF v.kind = "dict"
                        THEN IF DOMAIN v.map = {} THEN {NoneV}
                             ELSE {StrV(key) : key \in DOMAIN v.map}
                        ELSE IF v.items = <<>> THEN {NoneV}
                             ELSE {v.items[i] : i \in 1..Len(v.items)}
          [] OTHER -> {NoneV}

\* ------------------------------------------------------------------------
\* The run: pack a value set, generate the decoder, decode the payload
\* ------------------------------------------------------------------------
\* _pack_generated_data, line 275 and the set-up of line 276
pack_begin ==
    /\ pc = "start"
    /\ IF ~({"_field_order", "fields"} \subseteq template.keys)
       THEN /\ pc' = "returned"
            /\ result' = Fail
            /\ UNCHANGED <<field_idx, payload_bytes>>
       ELSE /\ pc' = "loop"
            /\ payload_bytes' = <<>>
            /\ field_idx' = 1
            /\ UNCHANGED result
    /\ UNCHANGED <<impl, native_long, template, generated_data, generated_names, packed,
                   decoder, decoded>>
    /\ UNCHANGED <<shell_vars, raw_payload, load_message, sim_vars>>

\* one turn of the loop of lines 278-294
pack_next_field ==
    /\ pc = "loop"
    /\ field_idx <= Len(template.field_order)
    /\ LET r == pack_field(impl, template, generated_data,
                           template.field_order[field_idx])
       IN  IF r.ok
           THEN /\ payload_bytes' = accumulate(payload_bytes, r.bytes)
                /\ packed' = r.bytes
                /\ field_idx' = field_idx + 1
                /\ UNCHANGED <<pc, result>>
           ELSE /\ pc' = "returned"
                /\ result' = Fail
                /\ UNCHANGED <<payload_bytes, packed, field_idx>>
    /\ UNCHANGED <<impl, native_long, template, generated_data, generated_names, decoder, decoded>>
    /\ UNCHANGED <<shell_vars, raw_payload, load_message, sim_vars>>

\* a packer that uses the template of the shell up
pack_return_consuming ==
    /\ pc = "loop"
    /\ field_idx > Len(template.field_order)
    /\ pc' = "returned"
    /\ result' = Ok(payload_bytes)
    /\ payload_json_template' = <<>>
    /\ UNCHANGED <<impl, native_long, template, generated_data, generated_names, field_idx,
                   payload_bytes, packed, decoder, decoded>>
    /\ UNCHANGED <<payload_settings, current_application_id, current_device_id,
                   periodic_interval, raw_payload, load_message, sim_vars>>

\* line 295
pack_return ==
    /\ pc = "loop"
    /\ field_idx > Len(template.field_order)
    /\ pc' = "returned"
    /\ result' = Ok(payload_bytes)
    /\ UNCHANGED <<impl, native_long, template, generated_data, generated_names, field_idx,
                   payload_bytes, packed, decoder, decoded>>
    /\ UNCHANGED <<shell_vars, raw_payload, load_message, sim_vars>>

\* js_decoder_generator.py run on the same template
generate_decoder ==
    /\ pc = "returned"
    /\ decoder' = generate_decoder_function(template)
    /\ pc' = "generated"
    /\ UNCHANGED <<impl, native_long, template, generated_data, generated_names, field_idx,
                   payload_bytes, packed, result, decoded>>
    /\ UNCHANGED <<shell_vars, raw_payload, load_message, sim_vars>>

\* the generated function applied to the packed payload
decode_uplink ==
    /\ pc = "generated"
    /\ result.ok
    /\ decoder.ok
    /\ decoded' = decodeUplink(decoder.lines, result.bytes)
    /\ pc' = "decoded"
    /\ UNCHANGED <<impl, native_long, template, generated_data, generated_names, field_idx,
                   payload_bytes, packed, result, decoder>>
    /\ UNCHANGED <<shell_vars, raw_payload, load_message, sim_vars>>

Next ==
    \/ pack_begin
    \/ pack_next_field
    \/ pack_return
    \/ generate_decoder
    \/ decode_uplink

\* ------------------------------------------------------------------------
\* Inputs
\* ------------------------------------------------------------------------
\* the longest _field_order the templates of the model have
MaxFields == 3

FieldNames == {"id", "temp"}

FieldOrders == UNION {[1..n -> FieldNames] : n \in 1..MaxFields}

Ascending(n) == [i \in 1..n |-> i]

\* the ints at and around the ends of the range of a code of w bytes
EdgeValues(c) ==
    LET w == standard_size(c)
    IN  IF c \in SIGNED_CODES
        THEN {IntV(TRUE, StripZeros(<<128>> \o Zeros(w - 2) \o <<1>>)),
              IntV(TRUE, <<128>> \o Zeros(w - 1)),
              IntV(TRUE, <<10>>),
              IntV(FALSE, <<1>>),
              IntV(FALSE, Ascending(w)),
              IntV(FALSE, <<127>> \o Ones(w - 1)),
              IntV(FALSE, <<128>> \o Zeros(w - 1))}
        ELSE {IntV(TRUE, <<1>>),
              IntV(FALSE, <<>>),
              IntV(FALSE, <<1>>),
              IntV(FALSE, Ascending(w)),
              IntV(FALSE, Ones(w)),
              IntV(FALSE, <<1>> \o Zeros(w))}

Absent == <<>>

\* a field with a packer: type int, no other attribute
IntDef(code, byte_order) ==
    FieldDef(<<IF code[1] \in SIGNED_CODES THEN "int" ELSE "uint">>, <<code>>,
             byte_order, Absent, Absent, Absent, Absent)

Given(field_def, value) == [field_def |-> field_def, has |-> TRUE, value |-> value]

\* a field whose name is no key of the value set
Missing(field_def) == [field_def |-> field_def, has |-> FALSE, value |-> NoneV]

\* the byte orders a schema may give a code (a one-byte code has none to choose)
ByteOrders(c) ==
    IF standard_size(c) = 1 THEN {Absent, <<"little">>}
    ELSE {Absent, <<"big">>, <<"little">>}

IntInputs ==
    UNION {{Given(IntDef(<<c>>, bo), v) : bo \in ByteOrders(c), v \in EdgeValues(c)} :
              c \in INT_CODES}

Text(v) == StrV(v)

ON == <<"o", "n">>

OFF == <<"o", "f", "f">>

SwitchValues == DictValues((ON :> IntV(FALSE, <<1>>)) @@ (OFF :> IntV(FALSE, <<>>)))

ChoiceDef(packer, values) ==
    FieldDef(<<"choice">>, packer, Absent, values, Absent, Absent, Absent)

StringDef(length, encoding) ==
    FieldDef(<<"string">>, Absent, Absent, Absent, encoding, length, Absent)

HexDef(length_bytes) ==
    FieldDef(<<"hex_string">>, Absent, Absent, Absent, Absent, Absent, length_bytes)

OtherInputs ==
    {Given(FieldDef(<<"float">>, <<<<"f">>>>, Absent, Absent, Absent, Absent, Absent),
           FloatV(FALSE, 0)),
     Given(FieldDef(<<"float">>, <<<<"d">>>>, <<"little">>, Absent, Absent, Absent, Absent),
           FloatV(TRUE, 1)),
     Given(FieldDef(<<"float">>, <<<<"e">>>>, Absent, Absent, Absent, Absent, Absent),
           FloatV(FALSE, -1)),
     Given(FieldDef(<<"float">>, <<<<"f">>>>, <<"big">>, Absent, Absent, Absent, Absent),
           FloatZero),
     Given(FieldDef(<<"float">>, Absent, Absent, Absent, Absent, Absent, Absent),
           FloatV(FALSE, 0)),
     Given(IntDef(<<"h">>, Absent), Text(<<"1">>)),
     Given(IntDef(<<"H">>, Absent), NoneV),
     Given(IntDef(<<"i">>, Absent), FloatV(FALSE, 0)),
     Given(IntDef(<<"z">>, Absent), IntV(FALSE, <<1>>)),
     Given(IntDef(<<"<", "h">>, <<"big">>), IntV(FALSE, <<1>>)),
     Given(IntDef(<<"4", "s">>, Absent), Text(<<"a", "b", "c", "d">>)),
     Given(IntDef(<<"-", "1", "s">>, Absent), Text(<<"a">>)),
     Given(IntDef(<<"H">>, <<"LITTLE">>), IntV(FALSE, <<1, 2>>)),
     Given(FieldDef(<<"int">>, Absent, Absent, Absent, Absent, Absent, Absent),
           IntV(FALSE, <<7>>)),
     Given(FieldDef(<<"blob">>, Absent, Absent, Absent, Absent, Absent, Absent),
           NoneV),
     Given(FieldDef(<<"uint">>, <<<<>>>>, Absent, Absent, Absent, Absent, Absent),
           IntV(FALSE, <<7>>)),
     Given(ChoiceDef(<<<<"B">>>>, <<SwitchValues>>), Text(ON)),
     Given(ChoiceDef(<<<<"B">>>>, <<SwitchValues>>), Text(OFF)),
     Given(ChoiceDef(<<<<"B">>>>, <<SwitchValues>>), Text(<<"a", "n">>)),
     Given(ChoiceDef(<<<<"B">>>>, <<SwitchValues>>), IntV(FALSE, <<1>>)),
     Given(ChoiceDef(<<<<"h">>>>, <<SwitchValues>>), NoneV),
     Given(ChoiceDef(Absent, <<SwitchValues>>), Text(ON)),
     Given(ChoiceDef(Absent, <<SwitchValues>>), Text(<<"a", "n">>)),
     Given(ChoiceDef(<<<<"B">>>>, <<ListValues(<<IntV(FALSE, <<3>>), IntV(FALSE, <<4>>)>>)>>),
           IntV(FALSE, <<3>>)),
     Given(ChoiceDef(<<<<"B">>>>, <<DictValues((ON :> NoneV))>>), Text(ON)),
     Given(ChoiceDef(<<<<"B">>>>, <<DictValues((ON :> IntV(FALSE, <<1, 0>>)))>>), Text(ON)),
     Given(StringDef(<<2>>, Absent), Text(<<"a", "b">>)),
     Given(StringDef(<<4>>, Absent), Text(<<"a", "b", "c", "d", "e", "f">>)),
     Given(StringDef(<<2>>, Absent), Text(<<"a", "U+00E9">>)),
     Given(StringDef(<<2>>, <<"latin-1">>), Text(<<"a", "U+00E9">>)),
     Given(StringDef(<<2>>, <<"ascii">>), Text(<<"a", "U+00E9">>)),
     Given(StringDef(<<2>>, <<"klingon">>), Text(<<"a", "b">>)),
     Given(StringDef(Absent, Absent), Text(<<"a">>)),
     Given(StringDef(<<2>>, Absent), IntV(FALSE, <<12>>)),
     Given(HexDef(<<2>>), Text(<<"0", "a", "F", "f">>)),
     Given(HexDef(<<2>>), Text(<<"a", "b", " ", "c", "d">>)),
     Given(HexDef(<<1>>), Text(<<"a", "b", " ">>)),
     Given(HexDef(<<1>>), Text(<<"a", " ", "b">>)),
     Given(HexDef(<<2>>), Text(<<"a", "b", "c">>)),
     Given(HexDef(<<1>>), Text(<<"g", "0">>)),
     Given(HexDef(<<1>>), Text(<<>>)),
     Given(HexDef(Absent), Text(<<"0", "1">>)),
     Given(HexDef(<<1>>), IntV(FALSE, <<12>>)),
     Given(HexDef(<<1>>), NoneV),
     Missing(IntDef(<<"B">>, Absent)),
     Missing(HexDef(<<1>>)),
     Missing(FieldDef(<<"blob">>, Absent, Absent, Absent, Absent, Absent, Absent))}

\* what the field "temp" can be
TempInputs == IntInputs \cup OtherInputs

\* what the field "id" can be
IdInputs ==
    {Given(IntDef(<<"B">>, Absent), IntV(FALSE, <<5>>)),
     Given(IntDef(<<"l">>, Absent), IntV(FALSE, <<1>>)),
     Given(IntDef(<<"q">>, Absent), IntV(TRUE, <<1>>)),
     Given(StringDef(<<2>>, Absent), Text(<<"a", "b">>))}

\* the documents: both keys and both definitions; for one choice of the
\* fields also the documents that lack a key or the definition of "temp"
Documents(order, id, temp) ==
    LET fields == ("id" :> id.field_def) @@ ("temp" :> temp.field_def)
    IN  {Template({"_field_order", "fields"}, order, fields)}
        \cup IF id = Given(IntDef(<<"B">>, Absent), IntV(FALSE, <<5>>))
                /\ temp = Given(IntDef(<<"h">>, <<"big">>), IntV(TRUE, <<10>>))
             THEN {Template({"fields"}, <<>>, fields),
                   Template({"_field_order"}, order, <<>>),
                   Template({"_field_order", "fields"}, order,
                            ("id" :> id.field_def))}
             ELSE {}

ValueSet(id, temp) ==
    [n \in {m \in FieldNames : IF m = "id" THEN id.has ELSE temp.has} |->
        IF n = "id" THEN id.value ELSE temp.value]

Init ==
    /\ impl \in {"ttn-sim", "paste"}
    /\ native_long \in {4, 8}
    /\ \E order \in FieldOrders, id \in IdInputs, temp \in TempInputs :
          /\ template \in Documents(order, id, temp)
          /\ generated_data = ValueSet(id, temp)
          /\ generated_names = <<>>
    /\ pc = "start"
    /\ field_idx = 0
    /\ payload_bytes = <<>>
    /\ packed = <<>>
    /\ result = Fail
    /\ decoder = Raised
    /\ decoded = Thrown
    /\ shell_init
    /\ raw_payload = Fail
    /\ load_message = ""
    /\ sim_init

Spec == Init /\ [][Next]_vars

\* ------------------------------------------------------------------------
\* The shell's commands
\* ------------------------------------------------------------------------
\* the files of the working directory: whether the path exists, whether its
\* content is JSON, and the document it holds
File(exists, json, doc) == [exists |-> exists, json |-> json, doc |-> doc]

NoDocument == Template({}, <<>>, <<>>)

BlobDef == FieldDef(<<"blob">>, Absent, Absent, Absent, Absent, Absent, Absent)

\* a uint field of one byte with "max": 200
SmallDef == [IntDef(<<"B">>, Absent) EXCEPT !.max = <<IntV(FALSE, <<200>>)>>]

\* a document of one field, "temp"
OneField(field_def) ==
    Template({"_field_order", "fields"}, <<"temp">>, ("temp" :> field_def))

\* a string field without packer
StringOf(length, charset) == [StringDef(length, Absent) EXCEPT !.charset = charset]

\* the template files the generator is run on
TEMPLATE_FILE_NAMES ==
    {"int_b.json", "uint_B.json", "int_h.json", "uint_H.json", "int_i.json",
     "uint_I.json", "int_l.json", "uint_L.json", "int_q.json", "uint_Q.json",
     "int.json", "uint.json", "range.json", "below.json",
     "str_alphanumeric.json", "str_hex.json", "str_ascii.json",
     "str_alnum.json", "str_klingon.json", "str_empty.json",
     "str_nolength.json", "hex_2.json", "hex_0.json", "hex_nolength.json",
     "odd_packer.json", "half.json", "twice.json", "swapped.json", "spare.json"}

TEMPLATE_FILES ==
    [name \in TEMPLATE_FILE_NAMES |->
        File(TRUE, TRUE,
             CASE name = "int_b.json" ->
                    OneField(IntDef(<<"b">>, Absent))
               [] name = "uint_B.json" ->
                    OneField(IntDef(<<"B">>, Absent))
               [] name = "int_h.json" ->
                    OneField(IntDef(<<"h">>, Absent))
               [] name = "uint_H.json" ->
                    OneField(IntDef(<<"H">>, Absent))
               [] name = "int_i.json" ->
                    OneField(IntDef(<<"i">>, Absent))
               [] name = "uint_I.json" ->
                    OneField(IntDef(<<"I">>, Absent))
               [] name = "int_l.json" ->
                    OneField(IntDef(<<"l">>, Absent))
               [] name = "uint_L.json" ->
                    OneField(IntDef(<<"L">>, Absent))
               [] name = "int_q.json" ->
                    OneField(IntDef(<<"q">>, Absent))
               [] name = "uint_Q.json" ->
                    OneField(IntDef(<<"Q">>, Absent))
               [] name = "int.json" ->
                    OneField(FieldDef(<<"int">>, Absent, Absent, Absent, Absent, Absent, Absent))
               [] name = "uint.json" ->
                    OneField(FieldDef(<<"uint">>, Absent, Absent, Absent, Absent, Absent, Absent))
               [] name = "range.json" ->
                    OneField([IntDef(<<"B">>, Absent) EXCEPT !.min = <<IntV(FALSE, <<10>>)>>,
                                                         !.max = <<IntV(FALSE, <<20>>)>>])
               [] name = "below.json" ->
                    OneField([IntDef(<<"h">>, Absent) EXCEPT !.min = <<IntV(TRUE, <<5>>)>>])
               [] name = "str_alphanumeric.json" ->
                    OneField(StringOf(<<3>>, <<"alphanumeric">>))
               [] name = "str_hex.json" ->
                    OneField(StringOf(<<3>>, <<"hex">>))
               [] name = "str_ascii.json" ->
                    OneField(StringOf(<<2>>, <<"ascii">>))
               [] name = "str_alnum.json" ->
                    OneField(StringOf(<<3>>, <<"alnum">>))
               [] name = "str_klingon.json" ->
                    OneField(StringOf(<<3>>, <<"klingon">>))
               [] name = "str_empty.json" ->
                    OneField(StringOf(<<0>>, <<"alphanumeric">>))
               [] name = "str_nolength.json" ->
                    OneField(StringOf(Absent, <<"hex">>))
               [] name = "hex_2.json" ->
                    OneField(HexDef(<<2>>))
               [] name = "hex_0.json" ->
                    OneField(HexDef(<<0>>))
               [] name = "hex_nolength.json" ->
                    OneField(HexDef(Absent))
               [] name = "odd_packer.json" ->
                    OneField(IntDef(<<"z">>, Absent))
               [] name = "half.json" ->
                    OneField(FieldDef(<<"float">>, <<<<"e">>>>, Absent, Absent, Absent, Absent, Absent))
               [] name = "twice.json" ->
                    Template({"_field_order", "fields"}, <<"id", "id">>, ("id" :> SmallDef))
               [] name = "swapped.json" ->
                    Template({"_field_order", "fields"}, <<"temp", "id">>,
                        ("id" :> SmallDef) @@ ("temp" :> SmallDef))
               [] OTHER ->
                    Template({"_field_order", "fields"}, <<"temp">>,
                        ("id" :> SmallDef) @@ ("temp" :> SmallDef)))]

FILE_NAMES ==
    {"sensor.json", "blob.json", "blobp.json", "nokey.json", "undef.json",
     "garbage.json", "missing.json"}

FILES ==
    TEMPLATE_FILES @@
    [name \in FILE_NAMES |->
        CASE name = "sensor.json" ->
               File(TRUE, TRUE,
                    Template({"_field_order", "fields"}, <<"id", "temp">>,
                             ("id" :> ChoiceDef(<<<<"B">>>>, <<SwitchValues>>))
                             @@ ("temp" :> IntDef(<<"h">>, <<"little">>))))
          [] name = "blob.json" ->
               File(TRUE, TRUE,
                    Template({"_field_order", "fields"}, <<"id", "temp">>,
                             ("id" :> SmallDef) @@ ("temp" :> BlobDef)))
          [] name = "blobp.json" ->
               File(TRUE, TRUE,
                    Template({"_field_order", "fields"}, <<"temp", "id">>,
                             ("id" :> SmallDef)
                             @@ ("temp" :> [BlobDef EXCEPT !.packer = <<<<"h">>>>])))
          [] name = "nokey.json" ->
               File(TRUE, TRUE, Template({"fields"}, <<>>, ("id" :> SmallDef)))
          [] name = "undef.json" ->
               File(TRUE, TRUE,
                    Template({"_field_order", "fields"}, <<"id", "temp">>,
                             ("id" :> SmallDef)))
          [] name = "garbage.json" -> File(TRUE, FALSE, NoDocument)
          [] OTHER -> File(FALSE, FALSE, NoDocument)]

\* the state a command works on: the two attributes do_config_payload
\* writes, and whether an exception left the handler
ShellState(settings, tpl, raised) ==
    [settings |-> settings, tpl |-> tpl, raised |-> raised, message |-> ""]

\* the state after a load that printed the message
Printed(st, message) == [st EXCEPT !.message = message]

\* a load that keeps the schema it held when the document is rejected
load_payload_template_keeping(which, st, filename) ==
    LET file == FILES[filename]
    IN  IF file.exists /\ file.json
           /\ {"_field_order", "fields"} \subseteq file.doc.keys
           /\ \A i \in 1..Len(file.doc.field_order) :
                 file.doc.field_order[i] \in DOMAIN file.doc.fields
        THEN Printed(ShellState([st.settings EXCEPT !.json_template_file = <<filename>>],
                                <<file.doc>>, FALSE), "loaded")
        ELSE Printed(ShellState(st.settings, st.tpl, FALSE), "error")

\* _load_payload_template_logic
load_payload_template_logic(which, st, filename) ==
    LET file == FILES[filename]
        cleared == [st.settings EXCEPT !.json_template_file = <<>>]
    IN  IF ~file.exists THEN Printed(ShellState(cleared, <<>>, FALSE), "error")
        ELSE IF ~file.json THEN Printed(ShellState(cleared, <<>>, FALSE), "error")
        ELSE IF ~({"_field_order", "fields"} \subseteq file.doc.keys)
                \/ \E i \in 1..Len(file.doc.field_order) :
                      file.doc.field_order[i] \notin DOMAIN file.doc.fields
             THEN Printed(ShellState(IF which = "ttn-sim" THEN st.settings ELSE cleared,
                                     <<>>, FALSE), "error")
        ELSE Printed(ShellState([st.settings EXCEPT !.json_template_file = <<filename>>],
                                <<file.doc>>, FALSE), "loaded")

PAYLOAD_TYPES == {"random_int", "fixed_hex", "json_template"}

\* do_config_payload, the branch of the key "type"
config_type(st, new_type) ==
    IF new_type \in PAYLOAD_TYPES
    THEN IF new_type # "json_template"
         THEN ShellState([st.settings EXCEPT !.type = new_type,
                                             !.json_template_file = <<>>],
                         <<>>, FALSE)
         ELSE ShellState([st.settings EXCEPT !.type = new_type], st.tpl, FALSE)
    ELSE st

\* self.payload_settings[key] = value_str
store(st, key, value_str) ==
    ShellState(CASE key = "num_bytes" ->
                      [st.settings EXCEPT !.num_bytes = StrV(value_str)]
                 [] key = "fixed_hex_value" ->
                      [st.settings EXCEPT !.fixed_hex_value = value_str]
                 [] key = "json_template_file" ->
                      [st.settings EXCEPT !.json_template_file = <<value_str>>]
                 [] OTHER ->
                      [st.settings EXCEPT !.extra = @ \cup {key}],
               st.tpl, FALSE)

\* self.payload_settings["num_bytes"] = int(value_str)
store_num_bytes(st, value_str) ==
    LET r == int_of(StrV(value_str))
    IN  IF r.ok THEN ShellState([st.settings EXCEPT !.num_bytes = r.v], st.tpl, FALSE)
        ELSE ShellState(st.settings, st.tpl, TRUE)

\* do_config_payload, one turn of the loop over the other keys
config_key(which, st, key, value_str) ==
    IF which = "ttn-sim"
    THEN CASE key = "num_bytes" -> store_num_bytes(st, value_str)
           [] key = "value" -> store(st, "fixed_hex_value", value_str)
           [] key = "file" /\ st.settings.type = "json_template" ->
                load_payload_template_logic(which, st, value_str)
           [] OTHER -> store(st, key, value_str)
    ELSE CASE key = "num_bytes" /\ st.settings.type = "random_int" ->
                LET r == store_num_bytes(st, value_str)
                IN  IF r.raised THEN st ELSE r
           [] key = "value" /\ st.settings.type = "fixed_hex" ->
                store(st, "fixed_hex_value", value_str)
           [] key = "file" /\ st.settings.type = "json_template" ->
                load_payload_template_logic(which, st, value_str)
           [] OTHER -> store(st, key, value_str)

\* what the command line of config_payload can hold besides "type"
ConfigArgs ==
    {<<"file", name>> : name \in FILE_NAMES}
    \cup {<<"num_bytes", <<"2">>>>, <<"num_bytes", <<"x">>>>,
          <<"value", <<"x", "y">>>>,
          <<"json_template_file", "sensor.json">>}

ConfigTypes == PAYLOAD_TYPES \cup {"bogus"}

\* the frame of a command: the call of _pack_generated_data is not running
idle_frame ==
    UNCHANGED <<impl, native_long, template, generated_data, generated_names, field_idx,
                payload_bytes, packed, result, decoder, decoded>>

\* the command thread can take a command: it is in none, and the uplink that
\* runs, if one does, is a periodic thread's
CommandReady == cmd = "ready" /\ (pc = "idle" \/ uplink.runner > 0)

\* the subsets of at most one element
AtMostOne(S) == {{}} \cup {{x} : x \in S}

\* do_config_payload with a command line of key=value words, "type" at most
\* once and at most one other key: the state it leaves
config_payload_state(types, args) ==
    LET st0 == ShellState(payload_settings, payload_json_template, FALSE)
        st1 == IF types = {} THEN st0
               ELSE config_type(st0, CHOOSE t \in types : TRUE)
    IN  IF args = {} THEN st1
        ELSE LET a == CHOOSE a \in args : TRUE
             IN  config_key(impl, st1, a[1], a[2])

\* do_config_payload as a command of the shell
config_payload(types, args) ==
    /\ CommandReady
    /\ Cardinality(types) <= 1
    /\ Cardinality(args) <= 1
    /\ LET st2 == config_payload_state(types, args)
       IN  /\ payload_settings' = st2.settings
           /\ payload_json_template' = st2.tpl
           /\ load_message' = IF st2.message = "" THEN load_message ELSE st2.message
           /\ pc' = IF st2.raised THEN "crashed" ELSE pc
    /\ UNCHANGED <<current_application_id, current_device_id, periodic_interval,
                   raw_payload, sim_vars>>
    /\ idle_frame

\* do_config_payload for the command lines of the shell's session
do_config_payload ==
    \E types \in AtMostOne(ConfigTypes), args \in AtMostOne(ConfigArgs) :
        config_payload(types, args)

\* do_set_target: _parse_args wants two words
do_set_target ==
    /\ CommandReady
    /\ \E args \in {<<"app1", "dev1">>, <<"app1">>} :
          IF Len(args) = 2
          THEN /\ current_application_id' = <<args[1]>>
               /\ current_device_id' = <<args[2]>>
          ELSE UNCHANGED <<current_application_id, current_device_id>>
    /\ UNCHANGED <<payload_settings, payload_json_template, periodic_interval,
                   raw_payload, load_message, pc, sim_vars>>
    /\ idle_frame

\* do_config_periodic
do_config_periodic ==
    /\ CommandReady
    /\ \E value_str \in {<<"6", "0">>, <<"0">>, <<"x">>} :
          LET interval == int(value_str)
          IN  periodic_interval' =
                  IF interval.ok /\ interval.n > 0 THEN interval.n
                  ELSE periodic_interval
    /\ UNCHANGED <<payload_settings, payload_json_template,
                   current_application_id, current_device_id, raw_payload,
                   load_message, pc, sim_vars>>
    /\ idle_frame

\* the keys of the documents in the order the files write them
FIELD_KEYS == <<"id", "temp">>

\* template["fields"].items(): a dict keeps the order in which the document
\* wrote its keys
items(fields) == SelectSeq(FIELD_KEYS, LAMBDA name : name \in DOMAIN fields)

\* a loop that stops after the first field
GeneratedDataOfFirst(which, tpl) ==
    {data \in [{items(tpl.fields)[1]} ->
                  generate_value_from_field_def(which, tpl.fields[items(tpl.fields)[1]])] :
        TRUE}

\* the value sets the loop of line 304 can build for a template
GeneratedData(which, tpl) ==
    {data \in [DOMAIN tpl.fields -> UNION {generate_value_from_field_def(which, tpl.fields[n]) :
                                              n \in DOMAIN tpl.fields}] :
        \A n \in DOMAIN tpl.fields :
            data[n] \in generate_value_from_field_def(which, tpl.fields[n])}

\* _generate_payload_logic, called by _execute_one_simulation, up to its
\* return or its call of _pack_generated_data
generate_payload_logic ==
    /\ pc = "idle"
    /\ CASE payload_settings.type = "json_template" ->
              IF payload_json_template = <<>>
                 \/ "fields" \notin payload_json_template[1].keys
              THEN /\ raw_payload' = Fail
                   /\ pc' = "payload"
                   /\ UNCHANGED <<template, generated_data, generated_names>>
              ELSE /\ template' = payload_json_template[1]
                   /\ generated_data' \in GeneratedData(impl, payload_json_template[1])
                   /\ generated_names' = items(payload_json_template[1].fields)
                   /\ pc' = "start"
                   /\ UNCHANGED raw_payload
         [] payload_settings.type = "random_int" ->
              LET num_bytes == payload_settings.num_bytes
              IN  /\ IF num_bytes.k # "int"
                     THEN raw_payload' = Fail /\ pc' = "payload"
                     ELSE IF num_bytes.neg
                          THEN pc' = "crashed" /\ UNCHANGED raw_payload
                          ELSE /\ raw_payload' \in {Ok(Zeros(number(num_bytes.mag))),
                                                    Ok(Ones(number(num_bytes.mag)))}
                               /\ pc' = "payload"
                  /\ UNCHANGED <<template, generated_data, generated_names>>
         [] payload_settings.type = "fixed_hex" ->
              /\ raw_payload' = fromhex(payload_settings.fixed_hex_value)
              /\ pc' = "payload"
              /\ UNCHANGED <<template, generated_data, generated_names>>
         [] OTHER ->
              /\ raw_payload' = Fail
              /\ pc' = "payload"
              /\ UNCHANGED <<template, generated_data, generated_names>>
    /\ UNCHANGED <<impl, native_long, field_idx, payload_bytes, packed, result,
                   decoder, decoded, shell_vars, load_message, sim_vars>>

\* line 305: _generate_payload_logic returns what _pack_generated_data
\* returned, and the locals of the two calls are gone
generate_payload_return ==
    /\ pc = "returned"
    /\ raw_payload' = result
    /\ pc' = "payload"
    /\ template' = NoDocument
    /\ generated_data' = <<>>
    /\ generated_names' = <<>>
    /\ field_idx' = 0
    /\ payload_bytes' = <<>>
    /\ packed' = <<>>
    /\ result' = Fail
    /\ UNCHANGED <<impl, native_long, decoder, decoded, shell_vars, load_message, sim_vars>>

\* _execute_one_simulation from line 401 on: the payload goes into the
\* command line of the CLI; no attribute of the shell is written
execute_one_simulation_return ==
    /\ pc = "payload"
    /\ pc' = "idle"
    /\ raw_payload' = Fail
    /\ UNCHANGED <<impl, native_long, template, generated_data, generated_names, field_idx,
                   payload_bytes, packed, result, decoder, decoded, shell_vars,
                   load_message, sim_vars>>

ShellInit ==
    /\ impl \in {"ttn-sim", "paste"}
    /\ native_long \in {4, 8}
    /\ template = NoDocument
    /\ generated_data = <<>>
    /\ generated_names = <<>>
    /\ pc = "idle"
    /\ field_idx = 0
    /\ payload_bytes = <<>>
    /\ packed = <<>>
    /\ result = Fail
    /\ decoder = Raised
    /\ decoded = Thrown
    /\ shell_init
    /\ raw_payload = Fail
    /\ load_message = ""
    /\ sim_init

ShellNext ==
    \/ do_config_payload
    \/ do_set_target
    \/ do_config_periodic
    \/ generate_payload_logic
    \/ pack_begin
    \/ pack_next_field
    \/ pack_return
    \/ generate_payload_return
    \/ execute_one_simulation_return

ShellSpec == ShellInit /\ [][ShellNext]_vars

\* the files a session of template loads names: the template files and the
\* documents the load rejects
LoadedFileNames ==
    TEMPLATE_FILE_NAMES \cup {"nokey.json", "undef.json", "garbage.json", "missing.json"}

\* do_config_payload for the command line type=json_template file=<name>
do_config_payload_file ==
    \E name \in LoadedFileNames :
        config_payload({"json_template"}, {<<"file", name>>})

GeneratorNext ==
    \/ do_config_payload_file
    \/ generate_payload_logic
    \/ pack_begin
    \/ pack_next_field
    \/ pack_return
    \/ generate_payload_return
    \/ execute_one_simulation_return

\* a session that loads templates and generates payloads from them
GeneratorSpec == ShellInit /\ [][GeneratorNext]_vars

\* ------------------------------------------------------------------------
\* The simulation configuration and the periodic simulation
\* ------------------------------------------------------------------------
\* the most threads a session of the model starts
MaxThreads == 2

\* the JSON values true and false
True == [k |-> "bool", neg |-> FALSE, mag |-> <<1>>, s |-> <<>>, exp |-> 0]

False == [k |-> "bool", neg |-> FALSE, mag |-> <<>>, s |-> <<>>, exp |-> 0]

\* an item of a dict of flags
Flag(name, value) == [name |-> name, value |-> value]

\* a simulation configuration document: an absent key is <<>>
SimConfig(simulation_type, description, common_args, flags, payload_source,
          periodic_settings) ==
    [simulation_type |-> simulation_type, description |-> description,
     common_args |-> common_args, flags |-> flags,
     payload_source |-> payload_source, periodic_settings |-> periodic_settings]

NoConfig == SimConfig(<<>>, <<>>, <<>>, <<>>, <<>>, <<>>)

\* the "periodic_settings" of a document
PeriodicSettings(interval, enabled_on_load) ==
    [interval |-> interval, enabled_on_load |-> enabled_on_load]

\* the JSON number 1.5
OneAndAHalf == [FloatV(FALSE, -1) EXCEPT !.mag = <<3>>]

\* a gateway-status configuration that sets the interval
WithInterval(interval) ==
    SimConfig(<<"gateway-status">>, <<>>, <<>>, <<>>, <<>>,
              <<PeriodicSettings(<<interval>>, FALSE)>>)

SIM_FILE_NAMES ==
    {"app.json", "gateway.json", "lorawan.json", "auto.json", "notype.json",
     "every_7.json", "every_0.json", "every_minus_5.json", "every_text_9.json",
     "every_x.json", "every_half.json", "every_2_0.json", "every_1_5.json",
     "every_null.json",
     "broken.json", "nosuch.json"}

\* the simulation configuration files of the working directory
SIM_FILES ==
    [name \in SIM_FILE_NAMES |->
        CASE name = "app.json" ->
               File(TRUE, TRUE,
                    SimConfig(<<"application-uplink">>, <<"office">>,
                              <<<<"app1", "dev1">>>>,
                              <<<<Flag("f_port", IntV(FALSE, <<2>>)),
                                  Flag("confirmed", True)>>>>,
                              <<>>, <<>>))
          [] name = "gateway.json" ->
               File(TRUE, TRUE,
                    SimConfig(<<"gateway-status">>, <<>>, <<<<"gw1">>>>, <<>>, <<>>, <<>>))
          [] name = "lorawan.json" ->
               File(TRUE, TRUE,
                    SimConfig(<<"lorawan-uplink">>, <<"raw">>, <<>>, <<>>,
                              <<[type |-> "json_template", file |-> "uint_B.json"]>>,
                              <<>>))
          [] name = "auto.json" ->
               File(TRUE, TRUE,
                    SimConfig(<<"application-uplink">>, <<"auto">>,
                              <<<<"app1", "dev1">>>>, <<>>,
                              <<[type |-> "json_template", file |-> "swapped.json"]>>,
                              <<PeriodicSettings(<<IntV(FALSE, <<5>>)>>, TRUE)>>))
          [] name = "notype.json" ->
               File(TRUE, TRUE,
                    SimConfig(<<>>, <<"untyped">>, <<<<"gw2">>>>,
                              <<<<Flag("confirmed", False)>>>>,
                              <<[type |-> "json_template", file |-> "swapped.json"]>>,
                              <<PeriodicSettings(<<IntV(FALSE, <<9>>)>>, TRUE)>>))
          [] name = "every_7.json" -> File(TRUE, TRUE, WithInterval(IntV(FALSE, <<7>>)))
          [] name = "every_0.json" -> File(TRUE, TRUE, WithInterval(IntV(FALSE, <<>>)))
          [] name = "every_minus_5.json" ->
               File(TRUE, TRUE, WithInterval(IntV(TRUE, <<5>>)))
          [] name = "every_text_9.json" -> File(TRUE, TRUE, WithInterval(StrV(<<"9">>)))
          [] name = "every_x.json" -> File(TRUE, TRUE, WithInterval(StrV(<<"x">>)))
          [] name = "every_half.json" -> File(TRUE, TRUE, WithInterval(FloatV(FALSE, -1)))
          [] name = "every_2_0.json" -> File(TRUE, TRUE, WithInterval(FloatV(FALSE, 1)))
          [] name = "every_1_5.json" -> File(TRUE, TRUE, WithInterval(OneAndAHalf))
          [] name = "every_null.json" -> File(TRUE, TRUE, WithInterval(NoneV))
          [] name = "broken.json" -> File(TRUE, FALSE, NoConfig)
          [] OTHER -> File(FALSE, FALSE, NoConfig)]

\* Thread.is_alive()
is_alive(thread) == threads[thread] # "dead"

\* line 361: a periodic simulation is already running
already_running_never == FALSE

already_running == periodic_thread # 0 /\ is_alive(periodic_thread)

\* do_start_periodic_sim for a shell whose loaded_sim_type is sim_type: the
\* thread it starts is about to test the loop's condition
start_periodic_sim(sim_type) ==
    IF already_running
       \/ (sim_type = <<>>
           /\ ~(current_application_id # <<>> /\ current_device_id # <<>>))
    THEN UNCHANGED <<periodic_thread, stop_event, threads, events>>
    ELSE /\ Len(threads) < MaxThreads
         /\ events' = Append(events, FALSE)
         /\ stop_event' = Len(events) + 1
         /\ threads' = Append(threads, "testing")
         /\ periodic_thread' = Len(threads) + 1

\* lines 232-240: the interval the shell has after the "interval" of the
\* periodic settings is processed
load_interval(current, interval) ==
    IF interval = <<>> \/ interval[1].k = "none" THEN current
    ELSE LET interval_val == int_of(interval[1])
             n == (IF interval_val.v.neg THEN -1 ELSE 1) * number(interval_val.v.mag)
         IN  IF interval_val.ok /\ n > 0 THEN n ELSE current

\* lines 211-214: the simulation attributes after the document is read
load_sim_attributes(current, filename, config) ==
    IF config.simulation_type = <<>> THEN [current EXCEPT !.type = <<>>]
    ELSE [type |-> config.simulation_type,
          description |-> <<get(config.description, "N/A")>>,
          common_args |-> get(config.common_args, <<>>),
          flags |-> get(config.flags, <<>>),
          config_file |-> <<filename>>]

\* do_load_sim_config <filename>
load_sim_config(filename) ==
    /\ CommandReady
    /\ LET file == SIM_FILES[filename]
           config == file.doc
           read == file.exists /\ file.json
           loaded == read /\ config.simulation_type # <<>>
           source == config.payload_source
           st == IF loaded /\ source # <<>>
                 THEN config_payload_state({source[1].type},
                                           {<<"file", source[1].file>>})
                 ELSE ShellState(payload_settings, payload_json_template, FALSE)
           periodic == loaded /\ ~st.raised /\ config.periodic_settings # <<>>
       IN  /\ loaded_sim' = IF read THEN load_sim_attributes(loaded_sim, filename, config)
                            ELSE loaded_sim
           /\ payload_settings' = st.settings
           /\ payload_json_template' = st.tpl
           /\ load_message' = IF st.message = "" THEN load_message ELSE st.message
           /\ periodic_interval' =
                  IF periodic
                  THEN load_interval(periodic_interval,
                                     config.periodic_settings[1].interval)
                  ELSE periodic_interval
           /\ IF periodic /\ config.periodic_settings[1].enabled_on_load
              THEN start_periodic_sim(config.simulation_type)
              ELSE UNCHANGED <<periodic_thread, stop_event, threads, events>>
    /\ UNCHANGED <<current_application_id, current_device_id, raw_payload, pc,
                   cmd, uplink, cli_calls>>
    /\ idle_frame

\* do_start_periodic_sim
do_start_periodic_sim ==
    /\ CommandReady
    /\ start_periodic_sim(loaded_sim.type)
    /\ UNCHANGED <<shell_vars, raw_payload, load_message, pc, loaded_sim, cmd,
                   uplink, cli_calls>>
    /\ idle_frame

\* do_stop_periodic_sim up to the join of line 376: the event is set and the
\* command thread waits for the periodic thread to end
do_stop_periodic_sim ==
    /\ CommandReady
    /\ IF periodic_thread = 0 \/ ~is_alive(periodic_thread)
       THEN UNCHANGED <<events, cmd>>
       ELSE /\ events' = [events EXCEPT ![stop_event] = TRUE]
            /\ cmd' = "joining"
    /\ UNCHANGED <<shell_vars, raw_payload, load_message, pc, loaded_sim,
                   periodic_thread, stop_event, threads, uplink, cli_calls>>
    /\ idle_frame

\* do_stop_periodic_sim once the join returned (line 377)
stop_periodic_sim_joined ==
    /\ cmd \in {"joining", "joining to exit"}
    /\ ~is_alive(periodic_thread)
    /\ periodic_thread' = 0
    /\ stop_event' = 0
    /\ cmd' = IF cmd = "joining" THEN "ready" ELSE "exited"
    /\ UNCHANGED <<shell_vars, raw_payload, load_message, pc, loaded_sim,
                   threads, events, uplink, cli_calls>>
    /\ idle_frame

\* do_exit: a running periodic simulation is stopped first; the shell is left
\* when the handler returns True
do_exit ==
    /\ CommandReady
    /\ IF periodic_thread # 0 /\ is_alive(periodic_thread)
       THEN /\ events' = [events EXCEPT ![stop_event] = TRUE]
            /\ cmd' = "joining to exit"
       ELSE /\ cmd' = "exited"
            /\ UNCHANGED events
    /\ UNCHANGED <<shell_vars, raw_payload, load_message, pc, loaded_sim,
                   periodic_thread, stop_event, threads, uplink, cli_calls>>
    /\ idle_frame

\* ------------------------------------------------------------------------
\* _execute_one_simulation, step by step
\* ------------------------------------------------------------------------
\* One uplink runs at a time in the model: an uplink reads attributes of the
\* shell and writes none, so two uplinks that overlap see what two uplinks
\* one after the other see.  pc is where the running uplink is.

\* self.interactive_simulation_flags (lines 59-65)
interactive_simulation_flags ==
    <<Flag("f_port", IntV(FALSE, <<1>>)),
      Flag("confirmed", False),
      Flag("settings.data-rate-index", IntV(FALSE, <<>>)),
      Flag("settings.frequency", StrV(<<"8", "6", "8", "1", "0", "0", "0", "0", "0">>)),
      Flag("settings.coding-rate", StrV(<<"4", "/", "5">>))>>

\* the characters of a text as one word
RECURSIVE Join(_)
Join(text) == IF text = <<>> THEN "" ELSE text[1] \o Join(Tail(text))

\* the alphabet of base64: A-Z, a-z, 0-9, + and /
B64_ALPHABET ==
    SubSeq(ASCII_PRINTABLE, 34, 59) \o SubSeq(ASCII_PRINTABLE, 66, 91)
    \o SubSeq(ASCII_PRINTABLE, 17, 26) \o <<"+", "/">>

\* base64.b64encode(raw_payload).decode('utf-8'), a text
RECURSIVE b64encode(_)
b64encode(bytes) ==
    IF bytes = <<>> THEN <<>>
    ELSE LET n == Min(Len(bytes), 3)
             b1 == bytes[1]
             b2 == IF n >= 2 THEN bytes[2] ELSE 0
             b3 == IF n >= 3 THEN bytes[3] ELSE 0
         IN  <<B64_ALPHABET[(b1 \div 4) + 1],
               B64_ALPHABET[(b1 % 4) * 16 + (b2 \div 16) + 1],
               IF n >= 2 THEN B64_ALPHABET[(b2 % 16) * 4 + (b3 \div 64) + 1] ELSE "=",
               IF n >= 3 THEN B64_ALPHABET[(b3 % 64) + 1] ELSE "=">>
             \o b64encode(SubSeq(bytes, n + 1, Len(bytes)))

\* payload_cli_flag_name.lstrip('-') for the two names of the flag
lstrip_dashes(name) ==
    CASE name = "--frm-payload" -> "frm-payload"
      [] name = "--mac-payload.frm-payload.payload" -> "mac-payload.frm-payload.payload"

\* flags[name] = value: the item is replaced where it is, or added at the end
set_item(flags, name, value) ==
    IF \E i \in 1..Len(flags) : flags[i].name = name
    THEN [i \in 1..Len(flags) |->
             IF flags[i].name = name THEN Flag(name, value) ELSE flags[i]]
    ELSE Append(flags, Flag(name, value))

\* lines 406-410: the words the flags add to the command line
RECURSIVE flag_words(_)
flag_words(flags) ==
    IF flags = <<>> THEN <<>>
    ELSE LET cli_flag == "--" \o flags[1].name
             value == flags[1].value
         IN  (IF value.k = "bool"
              THEN (IF value = True THEN <<cli_flag>> ELSE <<>>)
              ELSE <<cli_flag, Join(str(value))>>)
             \o flag_words(Tail(flags))

\* the frame of a step of the uplink that writes no local of the generator
\* and the packer
uplink_frame ==
    UNCHANGED <<impl, native_long, template, generated_data, generated_names,
                field_idx, payload_bytes, packed, result, decoder, decoded,
                shell_vars, load_message, loaded_sim, periodic_thread, stop_event,
                events>>

\* lines 384-399 of _execute_one_simulation run by the command thread
\* (runner 0) or by a periodic thread: the command line is begun, and the
\* uplink is about to call _generate_payload_logic, to build its flags, or to
\* return; payload_settings always holds a type, so line 391 never finds a
\* payload set in advance
execute_one_simulation_begin(runner) ==
    /\ pc = "idle"
    /\ uplink = NoUplink
    /\ IF loaded_sim.type # <<>>
       THEN LET type == loaded_sim.type[1]
                needed == type \in {"application-uplink", "lorawan-uplink"}
            IN  /\ uplink' =
                       [runner |-> runner,
                        payload_is_needed |-> needed,
                        payload_cli_flag_name |->
                            IF type = "lorawan-uplink"
                            THEN "--mac-payload.frm-payload.payload"
                            ELSE "--frm-payload",
                        cli_parts |-> <<"simulate", type>> \o loaded_sim.common_args,
                        current_flags_to_use |-> loaded_sim.flags]
                /\ pc' = IF needed THEN "called" ELSE "payload"
       ELSE IF current_application_id # <<>> /\ current_device_id # <<>>
            THEN /\ uplink' =
                        [runner |-> runner,
                         payload_is_needed |-> TRUE,
                         payload_cli_flag_name |-> "--frm-payload",
                         cli_parts |-> <<"simulate", "application-uplink",
                                         current_application_id[1],
                                         current_device_id[1]>>,
                         current_flags_to_use |-> interactive_simulation_flags]
                 /\ pc' = "called"
            ELSE /\ uplink' = [NoUplink EXCEPT !.runner = runner]
                 /\ pc' = "done"
    /\ raw_payload' = Fail
    /\ cli_calls' = <<>>

\* do_simulate: the command thread runs one uplink
do_simulate ==
    /\ cmd = "ready"
    /\ execute_one_simulation_begin(0)
    /\ cmd' = "simulating"
    /\ UNCHANGED threads
    /\ uplink_frame

\* _generate_payload_logic, lines 298-300, and its branches for the other
\* payload types
generate_payload_check ==
    /\ pc = "called"
    /\ CASE payload_settings.type = "json_template" ->
              IF payload_json_template = <<>>
              THEN raw_payload' = Fail /\ pc' = "payload"
              ELSE pc' = "checked" /\ UNCHANGED raw_payload
         [] payload_settings.type = "random_int" ->
              LET num_bytes == payload_settings.num_bytes
              IN  IF num_bytes.k # "int"
                  THEN raw_payload' = Fail /\ pc' = "payload"
                  ELSE IF num_bytes.neg
                       THEN pc' = "crashed" /\ UNCHANGED raw_payload
                       ELSE /\ raw_payload' \in {Ok(Zeros(number(num_bytes.mag))),
                                                 Ok(Ones(number(num_bytes.mag)))}
                            /\ pc' = "payload"
         [] payload_settings.type = "fixed_hex" ->
              /\ raw_payload' = fromhex(payload_settings.fixed_hex_value)
              /\ pc' = "payload"
         [] OTHER ->
              /\ raw_payload' = Fail
              /\ pc' = "payload"
    /\ UNCHANGED <<threads, cmd, uplink, cli_calls>>
    /\ uplink_frame

\* line 305: the template handed to _pack_generated_data
packed_template_of_shell(local, attribute) == get(attribute, local)

packed_template(local, attribute) == local

\* lines 301-302: the attribute is read again into the local "template"; an
\* attribute that is None by now makes the "in" of line 302 raise, which ends
\* the thread that runs the uplink
generate_payload_capture ==
    /\ pc = "checked"
    /\ IF payload_json_template = <<>>
       THEN /\ pc' = "idle"
            /\ uplink' = NoUplink
            /\ threads' = [threads EXCEPT ![uplink.runner] = "dead"]
            /\ UNCHANGED <<template, raw_payload>>
       ELSE IF "fields" \notin payload_json_template[1].keys
            THEN /\ raw_payload' = Fail
                 /\ pc' = "payload"
                 /\ UNCHANGED <<template, threads, uplink>>
            ELSE /\ template' = payload_json_template[1]
                 /\ pc' = "captured"
                 /\ UNCHANGED <<raw_payload, threads, uplink>>
    /\ UNCHANGED <<impl, native_long, generated_data, generated_names, field_idx,
                   payload_bytes, packed, result, decoder, decoded, shell_vars,
                   load_message, loaded_sim, periodic_thread, stop_event, events,
                   cmd, cli_calls>>

\* the loop of line 304 and the call of line 305
generate_payload_values ==
    /\ pc = "captured"
    /\ generated_data' \in GeneratedData(impl, template)
    /\ generated_names' = items(template.fields)
    /\ template' = packed_template(template, payload_json_template)
    /\ pc' = "start"
    /\ UNCHANGED <<impl, native_long, field_idx, payload_bytes, packed, result,
                   decoder, decoded, shell_vars, raw_payload, load_message, sim_vars>>

\* line 404: the flags with the payload among them
flags_with_payload(flags, name, payload) ==
    set_item(flags, lstrip_dashes(name), StrV(b64encode(payload.bytes)))

\* lines 400-411: without the payload it needs the uplink returns; otherwise
\* the flags are added to the command line and the CLI is run on it
execute_one_simulation_cli_without_check ==
    cli_calls' =
        <<uplink.cli_parts
          \o flag_words(IF uplink.payload_is_needed
                        THEN flags_with_payload(uplink.current_flags_to_use,
                                                uplink.payload_cli_flag_name,
                                                raw_payload)
                        ELSE uplink.current_flags_to_use)>>

execute_one_simulation_cli_logic ==
    IF uplink.payload_is_needed /\ ~raw_payload.ok
    THEN cli_calls' = <<>>
    ELSE cli_calls' =
             <<uplink.cli_parts
               \o flag_words(IF uplink.payload_is_needed
                             THEN flags_with_payload(uplink.current_flags_to_use,
                                                     uplink.payload_cli_flag_name,
                                                     raw_payload)
                             ELSE uplink.current_flags_to_use)>>

execute_one_simulation_cli ==
    /\ pc = "payload"
    /\ uplink.runner >= 0
    /\ execute_one_simulation_cli_logic
    /\ pc' = "done"
    /\ UNCHANGED <<raw_payload, threads, cmd, uplink>>
    /\ uplink_frame

\* _execute_one_simulation returns to do_simulate, or to the loop of the
\* periodic thread, which waits next (line 354)
execute_one_simulation_end ==
    /\ pc = "done"
    /\ pc' = "idle"
    /\ uplink' = NoUplink
    /\ raw_payload' = Fail
    /\ cli_calls' = <<>>
    /\ IF uplink.runner = 0
       THEN cmd' = "ready" /\ UNCHANGED threads
       ELSE /\ threads' = [threads EXCEPT ![uplink.runner] = "waiting"]
            /\ UNCHANGED cmd
    /\ uplink_frame

\* ------------------------------------------------------------------------
\* _periodic_sim_loop
\* ------------------------------------------------------------------------
\* Event.is_set()
is_set_never(event) == FALSE

is_set(event) == events[event]

\* line 351: the thread reads self.stop_event and tests it; a set event ends
\* the loop and the thread, an attribute that is None raises and ends the
\* thread, and otherwise the thread runs an uplink
periodic_sim_loop_test(n) ==
    /\ threads[n] = "testing"
    /\ IF stop_event = 0 \/ is_set(stop_event)
       THEN /\ threads' = [threads EXCEPT ![n] = "dead"]
            /\ UNCHANGED <<pc, raw_payload, uplink, cli_calls>>
       ELSE /\ execute_one_simulation_begin(n)
            /\ threads' = [threads EXCEPT ![n] = "executing"]
    /\ UNCHANGED cmd
    /\ uplink_frame

\* line 354: wait returns when the event is set or the interval is over
periodic_sim_loop_wait(n) ==
    /\ threads[n] = "waiting"
    /\ threads' = [threads EXCEPT ![n] = "testing"]
    /\ UNCHANGED <<pc, raw_payload, uplink, cli_calls, cmd>>
    /\ uplink_frame

periodic_sim_loop == \E n \in 1..Len(threads) : periodic_sim_loop_test(n)

periodic_sim_wait == \E n \in 1..Len(threads) : periodic_sim_loop_wait(n)

\* ------------------------------------------------------------------------
\* Sessions with simulation configurations and the periodic simulation
\* ------------------------------------------------------------------------
\* the shell of ttn-sim.py after construction
SimInit ==
    /\ ShellInit
    /\ impl = "ttn-sim"
    /\ native_long = 8

\* the configurations that do not start the periodic simulation
ConfigFileNames == SIM_FILE_NAMES \ {"auto.json"}

\* do_load_sim_config for the files of the working directory
do_load_sim_config == \E filename \in ConfigFileNames : load_sim_config(filename)

ConfigNext ==
    \/ do_set_target
    \/ do_config_periodic
    \/ do_load_sim_config
    \/ do_simulate
    \/ generate_payload_check
    \/ generate_payload_capture
    \/ generate_payload_values
    \/ pack_begin
    \/ pack_next_field
    \/ pack_return
    \/ generate_payload_return
    \/ execute_one_simulation_cli
    \/ execute_one_simulation_end

\* a session that loads simulation configurations and runs single uplinks
ConfigSpec == SimInit /\ [][ConfigNext]_vars

\* the template files a session with the periodic simulation loads, and a
\* document the load rejects
SimTemplateFileNames == {"swapped.json", "uint_B.json", "nokey.json"}

\* do_config_payload for the command line type=json_template file=<name>
do_config_payload_template ==
    \E name \in SimTemplateFileNames :
        config_payload({"json_template"}, {<<"file", name>>})

\* do_load_sim_config for a configuration that starts the periodic
\* simulation and for one without "simulation_type"
do_load_sim_config_periodic ==
    \E filename \in {"auto.json", "notype.json"} : load_sim_config(filename)

PeriodicNext ==
    \/ do_config_payload_template
    \/ do_load_sim_config_periodic
    \/ do_start_periodic_sim
    \/ do_stop_periodic_sim
    \/ stop_periodic_sim_joined
    \/ do_exit
    \/ do_simulate
    \/ periodic_sim_loop
    \/ periodic_sim_wait
    \/ generate_payload_check
    \/ generate_payload_capture
    \/ generate_payload_values
    \/ pack_begin
    \/ pack_next_field
    \/ pack_return
    \/ generate_payload_return
    \/ execute_one_simulation_cli
    \/ execute_one_simulation_end

\* a session with the periodic simulation
PeriodicSpec == SimInit /\ [][PeriodicNext]_vars

\* a step of a thread that is not a command: the periodic thread is
\* scheduled, an uplink that runs goes on to its end, and a join returns
\* once its thread is dead
PeriodicProgress ==
    \/ periodic_sim_loop
    \/ periodic_sim_wait
    \/ generate_payload_check
    \/ generate_payload_capture
    \/ generate_payload_values
    \/ pack_begin
    \/ pack_next_field
    \/ pack_return
    \/ generate_payload_return
    \/ execute_one_simulation_cli
    \/ execute_one_simulation_end
    \/ stop_periodic_sim_joined

\* the session with the periodic simulation when every uplink terminates
\* and no thread is kept from running for ever
PeriodicFairSpec == PeriodicSpec /\ WF_vars(PeriodicProgress)

\* ------------------------------------------------------------------------
\* Vocabulary of the properties
\* ------------------------------------------------------------------------
Order == template.field_order

NameAt(i) == Order[i]

DefAt(i) == field_def_of(template, NameAt(i))

HasValue(i) == NameAt(i) \in DOMAIN generated_data

ValueAt(i) == generated_data[NameAt(i)]

WellFormed == {"_field_order", "fields"} \subseteq template.keys

\* the pack has returned
Returned == pc \in {"returned", "generated", "decoded"}

\* the i-th field of _field_order stops the pack: the walk never goes past
\* it and no payload is returned
StopsAt(i) == field_idx <= i /\ (Returned => ~result.ok)

\* what the i-th field adds to the payload
Contribution(i) == pack_field(impl, template, generated_data, NameAt(i)).bytes

RECURSIVE ConcatUpTo(_)
ConcatUpTo(k) == IF k = 0 THEN <<>> ELSE ConcatUpTo(k - 1) \o Contribution(k)

\* the packer is one code of the integer table, without prefix
IntCoded(field_def) ==
    /\ has_packer(field_def)
    /\ Len(field_def.packer[1]) = 1
    /\ field_def.packer[1][1] \in INT_CODES

CodeOf(field_def) == field_def.packer[1][1]

\* the int that reaches struct.pack for a field with a packer
WireValue(field_def, value) ==
    IF is_mapped_choice(field_def) THEN choice_value(field_def, value) ELSE value

\* magnitudes compared as numbers (no leading zero bytes)
RECURSIVE LexLess(_, _)
LexLess(a, b) ==
    IF a = <<>> THEN FALSE
    ELSE IF a[1] # b[1] THEN a[1] < b[1] ELSE LexLess(Tail(a), Tail(b))

MagLess(a, b) == Len(a) < Len(b) \/ (Len(a) = Len(b) /\ LexLess(a, b))

\* unsigned: 0..2^(8w)-1; signed: -2^(8w-1)..2^(8w-1)-1
Representable(v, w, signed) ==
    IF signed
    THEN IF v.neg THEN ~MagLess(<<128>> \o Zeros(w - 1), v.mag)
         ELSE MagLess(v.mag, <<128>> \o Zeros(w - 1))
    ELSE ~v.neg /\ MagLess(v.mag, <<1>> \o Zeros(w))

\* ------------------------------------------------------------------------
\* C3
\* ------------------------------------------------------------------------
\* C3: during the walk of _pack_generated_data, after k fields the
\* accumulated payload is the concatenation of the encodings of fields 1..k
\* in _field_order order, and the returned payload is the concatenation of
\* all of them and nothing else.
C3_InOrderConcatenation ==
    /\ pc = "loop" => payload_bytes = ConcatUpTo(field_idx - 1)
    /\ Returned /\ result.ok => result.bytes = ConcatUpTo(Len(Order))

\* a payload of three fields, two different non-empty encodings among them
C3_Witness ==
    /\ Returned /\ result.ok
    /\ Len(Order) = 3
    /\ Contribution(1) # <<>> /\ Contribution(2) # <<>>
    /\ Contribution(1) # Contribution(2)

\* ------------------------------------------------------------------------
\* C7
\* ------------------------------------------------------------------------
\* C7: a name of _field_order without entry in the value set makes
\* _pack_generated_data return None at that field: no later field is
\* processed, the bytes of earlier fields are not returned, and nothing is
\* packed for the missing field.
C7_MissingValueFails ==
    WellFormed =>
        \A i \in 1..Len(Order) : ~HasValue(i) => StopsAt(i)

\* the pack stopped at a missing second field, after a first field that had
\* added bytes and before a third one
C7_Witness ==
    /\ Returned /\ WellFormed
    /\ Len(Order) = 3
    /\ HasValue(1) /\ ~HasValue(2)
    /\ field_idx = 2 /\ payload_bytes # <<>>
    /\ result = Fail

\* ------------------------------------------------------------------------
\* C9
\* ------------------------------------------------------------------------
\* C9: for every integer packer of width w, an int outside the range of
\* the code (unsigned 0..2^(8w)-1, signed -2^(8w-1)..2^(8w-1)-1) makes
\* _pack_generated_data return None; it is never truncated or wrapped into a
\* payload.
C9_OutOfRangeFails ==
    WellFormed =>
        \A i \in 1..Len(Order) :
            (/\ HasValue(i)
             /\ IntCoded(DefAt(i))
             /\ WireValue(DefAt(i), ValueAt(i)).k = "int"
             /\ ~Representable(WireValue(DefAt(i), ValueAt(i)),
                               standard_size(CodeOf(DefAt(i))),
                               CodeOf(DefAt(i)) \in SIGNED_CODES))
            => StopsAt(i)

\* the pack stopped at a second field whose int is out of range, after a
\* first field that had added bytes
C9_Witness ==
    /\ Returned /\ WellFormed
    /\ Len(Order) >= 2
    /\ HasValue(2) /\ IntCoded(DefAt(2)) /\ ValueAt(2).k = "int"
    /\ ~Representable(ValueAt(2), standard_size(CodeOf(DefAt(2))),
                      CodeOf(DefAt(2)) \in SIGNED_CODES)
    /\ field_idx = 2 /\ payload_bytes # <<>>
    /\ result = Fail

\* ------------------------------------------------------------------------
\* C5
\* ------------------------------------------------------------------------
\* the field packed last in the loop
LastIdx == field_idx - 1

WithByteOrder(field_def, byte_order) == [field_def EXCEPT !.byte_order = byte_order]

\* C5: for every integer packer of width > 1 and every int in range,
\* byte_order 'little' packs the bytes of the 'big' encoding in reverse
\* order and an absent byte_order packs as 'big'; a width-2 field of value 1
\* packs to 01 00 when little and to 00 01 when big.
C5_Endianness ==
    (/\ pc = "loop" /\ field_idx > 1
     /\ IntCoded(DefAt(LastIdx))
     /\ ~is_mapped_choice(DefAt(LastIdx))
     /\ standard_size(CodeOf(DefAt(LastIdx))) > 1)
    => LET field_def == DefAt(LastIdx)
           v == ValueAt(LastIdx)
           big == pack_value(impl, WithByteOrder(field_def, <<"big">>), v)
       IN  /\ big.ok
           /\ field_def.byte_order = <<"little">> => packed = Reverse(big.bytes)
           /\ field_def.byte_order \in {<<>>, <<"big">>} => packed = big.bytes
           /\ Len(packed) = 2 /\ v = IntV(FALSE, <<1>>) =>
                 packed = IF field_def.byte_order = <<"little">>
                          THEN <<1, 0>> ELSE <<0, 1>>

\* a width-2 little-endian field of value 1 has just been packed to 01 00
C5_Witness ==
    /\ pc = "loop" /\ field_idx > 1
    /\ IntCoded(DefAt(LastIdx))
    /\ standard_size(CodeOf(DefAt(LastIdx))) = 2
    /\ DefAt(LastIdx).byte_order = <<"little">>
    /\ ValueAt(LastIdx) = IntV(FALSE, <<1>>)
    /\ packed = <<1, 0>>

\* ------------------------------------------------------------------------
\* C6
\* ------------------------------------------------------------------------
\* field-order [id, temp], id unsigned 8-bit, temp signed 16-bit big-endian,
\* values {id: 5, temp: -10}
C6_Example ==
    /\ template = Template({"_field_order", "fields"}, <<"id", "temp">>,
                           ("id" :> IntDef(<<"B">>, Absent))
                           @@ ("temp" :> IntDef(<<"h">>, <<"big">>)))
    /\ generated_data = ("id" :> IntV(FALSE, <<5>>)) @@ ("temp" :> IntV(TRUE, <<10>>))

\* the reads the generated source makes, with the offset each is made at
RECURSIVE ReadsFrom(_, _, _)
ReadsFrom(lines, i, offset) ==
    IF i > Len(lines) THEN <<>>
    ELSE IF lines[i].op \in {"read", "read.toString()"}
         THEN <<[name |-> lines[i].name, method |-> lines[i].method,
                 le |-> lines[i].le, offset |-> offset]>>
              \o ReadsFrom(lines, i + 1, offset)
    ELSE IF lines[i].op = "offset +="
         THEN ReadsFrom(lines, i + 1, offset + lines[i].n)
    ELSE ReadsFrom(lines, i + 1, offset)

\* C6: packing the example yields the three bytes 05 FF F6, the generated
\* decoder reads getUint8 at offset 0 and getInt16 big-endian at offset 1,
\* and applied to those bytes it yields {id: 5, temp: -10}.
C6_EndToEnd ==
    C6_Example =>
        /\ Returned => result = Ok(<<5, 255, 246>>)
        /\ pc \in {"generated", "decoded"} =>
              /\ decoder.ok
              /\ ReadsFrom(decoder.lines, 1, 0) =
                    <<[name |-> "id", method |-> "getUint8", le |-> FALSE, offset |-> 0],
                      [name |-> "temp", method |-> "getInt16", le |-> FALSE, offset |-> 1]>>
        /\ pc = "decoded" =>
              /\ decoded.ok
              /\ decoded.data = ("id" :> IntV(FALSE, <<5>>))
                                @@ ("temp" :> IntV(TRUE, <<10>>))

\* the example has been packed and decoded
C6_Witness == C6_Example /\ pc = "decoded"

\* ------------------------------------------------------------------------
\* C8
\* ------------------------------------------------------------------------
\* the value of the i-th field is no key of the field's label mapping
UnmappedLabel(i) ==
    /\ HasValue(i)
    /\ is_mapped_choice(DefAt(i))
    /\ ~(ValueAt(i).k = "str" /\ ValueAt(i).s \in DOMAIN DefAt(i).values[1].map)

\* C8 as stated: for every choice field whose 'values' is a mapping,
\* whatever its other attributes, a value that is no key of the mapping
\* makes _pack_generated_data return None.
C8_AnyMappedChoiceFails ==
    WellFormed => \A i \in 1..Len(Order) : UnmappedLabel(i) => StopsAt(i)

\* C8 (amended): for every choice field that has a packer and whose
\* 'values' is a mapping, a value that is no key of the mapping makes
\* _pack_generated_data return None: no default and no raw label is packed.
\* (Without a packer the field is skipped and the label is never looked up.)
C8_PackedMappedChoiceFails ==
    WellFormed =>
        \A i \in 1..Len(Order) :
            UnmappedLabel(i) /\ has_packer(DefAt(i)) => StopsAt(i)

\* the pack stopped at a second field, a choice with a packer whose label
\* is not in the mapping, after a first field that had added bytes
C8_Witness ==
    /\ Returned /\ WellFormed
    /\ Len(Order) >= 2
    /\ UnmappedLabel(2) /\ has_packer(DefAt(2))
    /\ ValueAt(2).k = "str"
    /\ field_idx = 2 /\ payload_bytes # <<>>
    /\ result = Fail

\* ------------------------------------------------------------------------
\* C10
\* ------------------------------------------------------------------------
HexField(field_def) ==
    ~has_packer(field_def) /\ get(field_def.type, "") = "hex_string"

AllHexDigits(s) == \A j \in 1..Len(s) : s[j] \in HEX_DIGITS

\* C10: for a hex_string field without packer, a text of odd length or
\* with a character that is no hex digit makes _pack_generated_data return
\* None, and a text of 2n hex digits adds exactly n bytes.
C10_HexDecode ==
    WellFormed =>
        \A i \in 1..Len(Order) :
            HasValue(i) /\ HexField(DefAt(i)) /\ ValueAt(i).k = "str" =>
                /\ Len(ValueAt(i).s) % 2 = 1 \/ ~AllHexDigits(ValueAt(i).s)
                      => StopsAt(i)
                /\ Len(ValueAt(i).s) % 2 = 0 /\ AllHexDigits(ValueAt(i).s)
                      => Len(Contribution(i)) * 2 = Len(ValueAt(i).s)

\* ------------------------------------------------------------------------
\* C2
\* ------------------------------------------------------------------------
Defined(i) == NameAt(i) \in DOMAIN template.fields

TableCoded(field_def) == has_packer(field_def) /\ in_packer_map(field_def.packer[1])

StringField(field_def) ==
    ~has_packer(field_def) /\ get(field_def.type, "") = "string"

\* the value of the i-th field is one the definition of the field allows
Satisfies(i) ==
    /\ Defined(i) /\ HasValue(i)
    /\ has_packer(DefAt(i)) => TableCoded(DefAt(i))
    /\ is_mapped_choice(DefAt(i)) => ~UnmappedLabel(i)
    /\ IntCoded(DefAt(i)) =>
          /\ WireValue(DefAt(i), ValueAt(i)).k = "int"
          /\ Representable(WireValue(DefAt(i), ValueAt(i)),
                           standard_size(CodeOf(DefAt(i))),
                           CodeOf(DefAt(i)) \in SIGNED_CODES)
    /\ TableCoded(DefAt(i)) /\ ~IntCoded(DefAt(i)) => ValueAt(i).k = "float"
    /\ StringField(DefAt(i)) =>
          /\ ValueAt(i).k = "str"
          /\ DefAt(i).length # <<>>
          /\ Len(ValueAt(i).s) = DefAt(i).length[1]
    /\ HexField(DefAt(i)) =>
          /\ ValueAt(i).k = "str"
          /\ DefAt(i).length_bytes # <<>>
          /\ Len(ValueAt(i).s) = 2 * DefAt(i).length_bytes[1]
          /\ AllHexDigits(ValueAt(i).s)

\* the width of the packer, or the declared length; 0 for a field that has
\* neither
DeclaredWidth(field_def) ==
    IF has_packer(field_def) THEN standard_size(CodeOf(field_def))
    ELSE IF get(field_def.type, "") = "string" THEN field_def.length[1]
    ELSE IF get(field_def.type, "") = "hex_string" THEN field_def.length_bytes[1]
    ELSE 0

RECURSIVE SumOfWidths(_)
SumOfWidths(k) ==
    IF k = 0 THEN 0 ELSE SumOfWidths(k - 1) + DeclaredWidth(DefAt(k))

\* every character of the text of a string field is one byte in the
\* encoding of the field
SingleByteText(i) ==
    StringField(DefAt(i)) =>
        \A j \in 1..Len(ValueAt(i).s) :
            CODE_POINT[ValueAt(i).s[j]] <
                (IF get(DefAt(i).encoding, "utf-8") = "latin-1" THEN 256 ELSE 128)

\* C2 as stated: for every schema and every value set that satisfies it, a
\* returned payload is as long as the sum of the packer widths and declared
\* lengths of the fields of _field_order, and no field adds zero bytes.
C2_LengthIsSumOfWidths ==
    (Returned /\ result.ok /\ WellFormed /\ \A i \in 1..Len(Order) : Satisfies(i))
    => /\ Len(result.bytes) = SumOfWidths(Len(Order))
       /\ \A i \in 1..Len(Order) : Contribution(i) # <<>>

\* C2 (amended): for every schema and every value set that satisfies it and
\* whose texts have one byte per character, a returned payload is as long
\* as the sum, over _field_order, of the packer's standard width (fields
\* with a packer), the declared length (string), length_bytes (hex_string)
\* and zero for a field without packer of another kind, which is skipped;
\* every field adds exactly that many bytes and no extra bytes appear.
C2_LengthIsSumOfPackedWidths ==
    (/\ Returned /\ result.ok /\ WellFormed
     /\ \A i \in 1..Len(Order) : Satisfies(i) /\ SingleByteText(i))
    => /\ Len(result.bytes) = SumOfWidths(Len(Order))
       /\ \A i \in 1..Len(Order) : Len(Contribution(i)) = DeclaredWidth(DefAt(i))

\* a payload of three fields, a string and a four-byte integer among them
C2_Witness ==
    /\ Returned /\ result.ok /\ WellFormed
    /\ \A i \in 1..Len(Order) : Satisfies(i) /\ SingleByteText(i)
    /\ Len(Order) = 3
    /\ \E i \in 1..3 : StringField(DefAt(i))
    /\ \E i \in 1..3 : IntCoded(DefAt(i)) /\ CodeOf(DefAt(i)) \in {"l", "L"}
    /\ Len(result.bytes) = 8

\* ------------------------------------------------------------------------
\* C1 and C4
\* ------------------------------------------------------------------------
\* every field is an integer packer of the table with a byte order the
\* schema allows, and holds an int in range
AllIntegersInRange ==
    /\ WellFormed
    /\ \A i \in 1..Len(Order) :
          /\ Defined(i) /\ HasValue(i)
          /\ IntCoded(DefAt(i)) /\ ~is_mapped_choice(DefAt(i))
          /\ DefAt(i).byte_order \in {<<>>, <<"big">>, <<"little">>}
          /\ ValueAt(i).k = "int"
          /\ Representable(ValueAt(i), standard_size(CodeOf(DefAt(i))),
                           CodeOf(DefAt(i)) \in SIGNED_CODES)

\* what the decoder should give for a packed int: the int, or its decimal
\* text for a 64-bit field
Expected(i) ==
    IF CodeOf(DefAt(i)) \in {"q", "Q"} THEN to_string(ValueAt(i)) ELSE ValueAt(i)

\* C1: for every schema of integer packers and every value set in range,
\* the generated decoder applied to the packed payload yields, field by
\* field, the original values.
C1_RoundTrip ==
    AllIntegersInRange =>
        /\ Returned => result.ok
        /\ pc \in {"generated", "decoded"} => decoder.ok
        /\ pc = "decoded" =>
              /\ decoded.ok
              /\ \A i \in 1..Len(Order) :
                    /\ NameAt(i) \in DOMAIN decoded.data
                    /\ decoded.data[NameAt(i)] = Expected(i)

\* the amounts the generated source adds to offset, in order
Advances(lines) ==
    LET adds == SelectSeq(lines, LAMBDA l : l.op = "offset +=")
    IN  [i \in 1..Len(adds) |-> adds[i].n]

RECURSIVE Sum(_)
Sum(ns) == IF ns = <<>> THEN 0 ELSE ns[1] + Sum(Tail(ns))

\* C4: for every packer of the table the generated decoder advances its
\* offset by the number of bytes _pack_generated_data emits for the field,
\* one of 1, 2, 4, 8; so for a schema of such fields the offset after the
\* last field is the length of the payload.
C4_AdvanceIsPackedWidth ==
    (/\ pc \in {"generated", "decoded"} /\ result.ok /\ decoder.ok
     /\ \A i \in 1..Len(Order) : Defined(i) /\ TableCoded(DefAt(i)))
    => /\ Len(Advances(decoder.lines)) = Len(Order)
       /\ \A i \in 1..Len(Order) :
             /\ Advances(decoder.lines)[i] = Len(Contribution(i))
             /\ Advances(decoder.lines)[i] \in {1, 2, 4, 8}
       /\ Sum(Advances(decoder.lines)) = Len(result.bytes)

\* the two properties on a machine whose C long has four bytes
C1_RoundTripLong4 == native_long = 4 => C1_RoundTrip

C4_AdvanceIsPackedWidthLong4 == native_long = 4 => C4_AdvanceIsPackedWidth

\* ------------------------------------------------------------------------
\* C11
\* ------------------------------------------------------------------------
\* neither a packer nor one of the two kinds that are encoded directly
Skippable(field_def) ==
    /\ ~has_packer(field_def)
    /\ get(field_def.type, "") \notin {"string", "hex_string"}

\* C11: a field without packer whose type is neither string nor hex_string
\* is skipped by _pack_generated_data: it adds no bytes, the walk goes on
\* with the next field of _field_order (the pack never stops at it), and a
\* schema of such fields only still returns a payload.
C11_SkippedFieldAddsNothing ==
    WellFormed =>
        /\ \A i \in 1..Len(Order) :
              HasValue(i) /\ Skippable(DefAt(i)) =>
                  /\ pc = "loop" /\ field_idx = i + 1 =>
                        packed = <<>> /\ payload_bytes = ConcatUpTo(i - 1)
                  /\ Returned /\ ~result.ok => field_idx # i
        /\ (Returned /\ \A i \in 1..Len(Order) :
                           HasValue(i) /\ Skippable(DefAt(i)))
              => result = Ok(<<>>)

\* a payload of three fields was returned whose second field was skipped:
\* it holds the bytes of the first and of the third field only
C11_Witness ==
    /\ Returned /\ result.ok /\ WellFormed
    /\ Len(Order) = 3
    /\ HasValue(2) /\ Skippable(DefAt(2))
    /\ Contribution(1) # <<>> /\ Contribution(3) # <<>>
    /\ result.bytes = Contribution(1) \o Contribution(3)

\* ------------------------------------------------------------------------
\* C13
\* ------------------------------------------------------------------------
\* bytes one character takes in an encoding the model knows
CharBytes(c, enc) == IF enc = "utf-8" /\ CODE_POINT[c] >= 128 THEN 2 ELSE 1

RECURSIVE EncodedLen(_, _)
EncodedLen(s, enc) ==
    IF s = <<>> THEN 0 ELSE CharBytes(s[1], enc) + EncodedLen(Tail(s), enc)

\* the i-th field is a string field without packer whose text the declared
\* encoding can encode
EncodableText(i) ==
    /\ HasValue(i) /\ StringField(DefAt(i)) /\ ValueAt(i).k = "str"
    /\ get(DefAt(i).encoding, "utf-8") \in {"utf-8", "latin-1", "ascii"}
    /\ get(DefAt(i).encoding, "utf-8") = "ascii" =>
          \A j \in 1..Len(ValueAt(i).s) : CODE_POINT[ValueAt(i).s[j]] < 128

\* where the encoding of the i-th field starts in the payload
StartOf(i) == Len(ConcatUpTo(i - 1))

\* C13: for a string field without packer the encoded text is never
\* compared with the declared 'length': the field adds as many bytes as the
\* encoded text has (6 for 6 single-byte characters under length 4), the
\* pack does not stop at it, and the next field starts right after those
\* bytes.
C13_StringLengthNotChecked ==
    WellFormed =>
        \A i \in 1..Len(Order) :
            EncodableText(i) =>
                LET n == EncodedLen(ValueAt(i).s, get(DefAt(i).encoding, "utf-8"))
                IN  /\ pc = "loop" /\ field_idx = i + 1 => Len(packed) = n
                    /\ Returned /\ ~result.ok => field_idx # i
                    /\ Returned /\ result.ok /\ i < Len(Order) =>
                          /\ StartOf(i + 1) = StartOf(i) + n
                          /\ SubSeq(result.bytes, StartOf(i) + n + 1,
                                    StartOf(i) + n + Len(Contribution(i + 1)))
                                = Contribution(i + 1)

\* a text of 6 characters under declared length 4 was packed to 6 bytes and
\* the one-byte field after it sits at the seventh byte
C13_Witness ==
    /\ Returned /\ result.ok /\ WellFormed
    /\ Len(Order) >= 2
    /\ EncodableText(1)
    /\ DefAt(1).length = <<4>> /\ Len(ValueAt(1).s) = 6
    /\ DefAt(2) = IntDef(<<"B">>, Absent)
    /\ SubSeq(result.bytes, 1, 7) = <<97, 98, 99, 100, 101, 102, 5>>

\* ------------------------------------------------------------------------
\* C15
\* ------------------------------------------------------------------------
\* the generator has returned a source text
Generated == pc \in {"generated", "decoded"} /\ decoder.ok

\* the lines of the source that assign data.<key>
AssignmentsTo(key) ==
    SelectSeq(decoder.lines,
              LAMBDA l : /\ l.name = key
                         /\ l.op \in {"read", "read.toString()", "bytesToString",
                                      "slice"})

\* 2^63 - 1
MaxInt64 == IntV(FALSE, <<127>> \o Ones(7))

\* "9223372036854775807" as UTF-16 code units
MaxInt64Text ==
    JsString(<<57, 50, 50, 51, 51, 55, 50, 48, 51, 54, 56, 53, 52, 55, 55, 53,
               56, 48, 55>>)

\* C15: in the generated source every integer field whose packer is 8 bytes
\* wide on the wire is assigned as text (its read is followed by
\* .toString()) and no field of a narrower packer is; applied to the 8-byte
\* encoding of 9223372036854775807 the decoder yields the decimal text of
\* that number.
C15_WideIntegersAsText ==
    /\ Generated =>
          \A i \in 1..Len(Order) :
              TableCoded(DefAt(i)) =>
                  LET reads == AssignmentsTo(NameAt(i))
                      wide == /\ IntCoded(DefAt(i))
                              /\ standard_size(CodeOf(DefAt(i))) = 8
                  IN  /\ reads # <<>>
                      /\ \A j \in 1..Len(reads) :
                            reads[j].op = IF wide THEN "read.toString()" ELSE "read"
    /\ (/\ pc = "decoded" /\ WellFormed /\ Len(Order) = 1 /\ Defined(1) /\ HasValue(1)
        /\ IntCoded(DefAt(1)) /\ CodeOf(DefAt(1)) = "q"
        /\ DefAt(1).byte_order \in {<<>>, <<"big">>, <<"little">>}
        /\ ValueAt(1) = MaxInt64)
       => /\ decoded.ok
          /\ decoded.data = (NameAt(1) :> MaxInt64Text)

\* the big-endian 8-byte encoding of 2^63 - 1 has been decoded
C15_Witness ==
    /\ pc = "decoded" /\ Len(Order) = 1
    /\ ValueAt(1) = MaxInt64
    /\ result.bytes = <<127, 255, 255, 255, 255, 255, 255, 255>>
    /\ decoded.ok /\ decoded.data[NameAt(1)] = MaxInt64Text

\* ------------------------------------------------------------------------
\* C16
\* ------------------------------------------------------------------------
\* the field is decoded as a string: a packer 'Ns', or type string
DecodedAsString(field_def) ==
    \/ /\ has_packer(field_def)
       /\ ~in_packer_map(field_def.packer[1])
       /\ field_def.packer[1][Len(field_def.packer[1])] = "s"
    \/ StringField(field_def)

\* how many times the source defines bytesToString
HelperDefinitions ==
    Len(SelectSeq(decoder.lines,
                  LAMBDA l : l.op = "function bytesToString(bytes) {"))

StringFieldPositions == {i \in 1..Len(Order) : DecodedAsString(DefAt(i))}

\* C16: the source generate_decoder_function returns defines the
\* bytesToString helper exactly once when at least one field is decoded as
\* a string, however many there are, and not at all when none is.
C16_HelperOnce ==
    Generated =>
        HelperDefinitions = IF StringFieldPositions # {} THEN 1 ELSE 0

\* a source for three fields, all decoded as strings and not all the same
\* field, that defines the helper once
C16_Witness ==
    /\ Generated
    /\ Cardinality(StringFieldPositions) = 3
    /\ NameAt(1) # NameAt(2)
    /\ HelperDefinitions = 1

\* ------------------------------------------------------------------------
\* C17
\* ------------------------------------------------------------------------
CountOf(op) == Len(SelectSeq(decoder.lines, LAMBDA l : l.op = op))

\* the text of the last lines of the source
LastLines(n) ==
    [i \in 1..n |-> decoder.lines[Len(decoder.lines) - n + i].op]

\* C17: every source generate_decoder_function returns defines the one
\* function decodeUplink(input) and ends with its single return of a record
\* with exactly the keys data, warnings and errors, the last two being
\* empty sequences, whatever the number and kinds of the fields; the
\* function, when it returns, returns such a record.
C17_ReturnShape ==
    /\ Generated =>
          /\ CountOf("function decodeUplink(input) {") = 1
          /\ CountOf("return {") = 1
          /\ Len(decoder.lines) >= 6
          /\ LastLines(6) = <<"return {", "data: data,", "warnings: [],",
                              "errors: []", "};", "}">>
    /\ pc = "decoded" /\ decoded.ok =>
          /\ DOMAIN decoded = {"ok", "data", "warnings", "errors"}
          /\ decoded.warnings = <<>> /\ decoded.errors = <<>>

\* a source with the helper, for three fields, has been run and has returned
C17_Witness ==
    /\ pc = "decoded" /\ decoded.ok
    /\ Len(Order) = 3 /\ NameAt(1) # NameAt(2)
    /\ HelperDefinitions = 1
    /\ DOMAIN decoded.data = {"id", "temp"}

\* ------------------------------------------------------------------------
\* C18
\* ------------------------------------------------------------------------
\* the positions of the lines of the source that are of the given kind
PositionsOf(op) ==
    SelectSeq([j \in 1..Len(decoder.lines) |-> j],
              LAMBDA j : decoder.lines[j].op = op)

\* the bytes the field takes in the payload according to its definition
FieldWidth(field_def) ==
    IF TableCoded(field_def) THEN standard_size(CodeOf(field_def))
    ELSE IF has_packer(field_def) THEN struct_count(Front(field_def.packer[1]))
    ELSE IF get(field_def.type, "") = "string" THEN get(field_def.length, 0)
    ELSE IF get(field_def.type, "") = "hex_string" THEN get(field_def.length_bytes, 0)
    ELSE 0

\* the lines the source has for the i-th field: from its heading to the
\* heading of the next field, or to the return
BlockOf(i) ==
    LET starts == PositionsOf("// Field:")
        last == IF i < Len(starts) THEN starts[i + 1]
                ELSE PositionsOf("return {")[1]
    IN  SubSeq(decoder.lines, starts[i], last - 1)

\* C18: for every field of _field_order, in that order and without
\* skipping any, the generated source reads the field at the current
\* offset, assigns the decoded value to the output record under the field's
\* own name and then advances the offset by the field's width; a hex_string
\* field is assigned the raw slice of length_bytes bytes.
C18_EveryFieldDecodedInOrder ==
    Generated =>
        /\ Len(PositionsOf("// Field:")) = Len(Order)
        /\ \A i \in 1..Len(Order) :
              LET block == BlockOf(i)
                  assigns == SelectSeq(block,
                                 LAMBDA l : l.op \in {"read", "read.toString()",
                                                      "bytesToString", "slice"})
                  adds == SelectSeq(block, LAMBDA l : l.op = "offset +=")
              IN  /\ block[1].name = NameAt(i)
                  /\ Len(assigns) = 1 /\ assigns[1].name = NameAt(i)
                  /\ Len(adds) = 1 /\ adds[1].n = FieldWidth(DefAt(i))
                  /\ HexField(DefAt(i)) =>
                        /\ assigns[1].op = "slice"
                        /\ assigns[1].n = DefAt(i).length_bytes[1]

\* the part of C18 that is about order: the source has one heading per
\* field of _field_order, in that order
C18_HeadingsInOrder ==
    Generated =>
        /\ Len(PositionsOf("// Field:")) = Len(Order)
        /\ \A i \in 1..Len(Order) : BlockOf(i)[1].name = NameAt(i)

\* ------------------------------------------------------------------------
\* C19
\* ------------------------------------------------------------------------
\* a code of the table, or a string code 'Ns' with a count N
KnownPacker(packer) ==
    \/ in_packer_map(packer)
    \/ /\ Len(packer) >= 2 /\ packer[Len(packer)] = "s"
       /\ struct_count(Front(packer)) >= 0

\* the i-th field declares a packer that is not a known one
UnknownPackerAt(i) ==
    Defined(i) /\ has_packer(DefAt(i)) /\ ~KnownPacker(DefAt(i).packer[1])

\* the generator has been run
GeneratorRan == pc \in {"generated", "decoded"}

\* C19: generate_decoder_function raises, returning no source text at all,
\* whenever the document lacks '_field_order' or 'fields', whenever a name
\* of _field_order has no definition, and whenever a field declares a packer
\* that is not in the table of known codes.
C19_InvalidSchemaRaises ==
    (/\ GeneratorRan
     /\ \/ ~WellFormed
        \/ \E i \in 1..Len(Order) : ~Defined(i)
        \/ \E i \in 1..Len(Order) : UnknownPackerAt(i))
    => decoder = Raised

\* the same for the documents whose unknown packers do not end in 's'
C19_RaisesUnlessStringLike ==
    (/\ GeneratorRan
     /\ \/ ~WellFormed
        \/ \E i \in 1..Len(Order) : ~Defined(i)
        \/ \E i \in 1..Len(Order) :
              /\ UnknownPackerAt(i)
              /\ DefAt(i).packer[1][Len(DefAt(i).packer[1])] # "s")
    => decoder = Raised

\* ------------------------------------------------------------------------
\* C20
\* ------------------------------------------------------------------------
KNOWN_TYPES == {"int", "uint", "float", "string", "hex_string", "choice"}

\* a definition without packer whose type is none of the known ones
UnknownKind(field_def) ==
    /\ field_def # EmptyDef
    /\ ~has_packer(field_def)
    /\ get(field_def.type, "None") \notin KNOWN_TYPES

\* every field of _field_order is of unknown kind or has a code of the table
OnlyUnknownOrTableCoded ==
    /\ WellFormed
    /\ \A i \in 1..Len(Order) :
          Defined(i) /\ (UnknownKind(DefAt(i)) \/ TableCoded(DefAt(i)))

\* the generator goes on after a field of unknown kind: the source has the
\* heading of every field
UnknownKindContinues ==
    GeneratorRan /\ OnlyUnknownOrTableCoded =>
        /\ decoder.ok
        /\ Len(PositionsOf("// Field:")) = Len(Order)

\* C20: a field without packer whose type is not a known one does not
\* abort generate_decoder_function: the remaining fields are generated and
\* the source has, for that field, a decode of its raw bytes that is
\* flagged as incomplete.
C20_UnknownKindRawBytes ==
    /\ UnknownKindContinues
    /\ Generated =>
          \A i \in 1..Len(Order) :
              UnknownKind(DefAt(i)) =>
                  /\ \E j \in 1..Len(BlockOf(i)) : BlockOf(i)[j].op = "slice"
                  /\ \E j \in 1..Len(BlockOf(i)) : BlockOf(i)[j].op = "comment"

\* the part of C20 that is about going on
C20_UnknownKindGoesOn == UnknownKindContinues


\* ------------------------------------------------------------------------
\* C12
\* ------------------------------------------------------------------------
\* a definition whose type is none of the known ones
UnknownType(field_def) == get(field_def.type, "None") \notin KNOWN_TYPES

\* _pack_generated_data is running or has just returned
InCall == pc \in {"start", "loop", "returned"}

\* the value set of the call holds None for every field of unknown type,
\* and None is all the generator can return for it
UnknownTypeGeneratesNone ==
    InCall =>
        \A n \in DOMAIN template.fields :
            UnknownType(template.fields[n]) =>
                /\ generate_value_from_field_def(impl, template.fields[n]) = {NoneV}
                /\ n \in DOMAIN generated_data
                /\ generated_data[n] = NoneV

\* C12 as stated: for a field of unknown kind _generate_value_from_field_def
\* returns None without raising, and generate-then-pack returns no payload
\* whenever _field_order contains a field of unknown kind.
C12_UnknownKindFailsToPack ==
    /\ UnknownTypeGeneratesNone
    /\ pc = "returned" /\ (\E i \in 1..Len(Order) : UnknownType(DefAt(i)))
          => ~result.ok

\* C12 as amended: for a field of unknown kind _generate_value_from_field_def
\* returns None without raising, and generate-then-pack returns no payload
\* whenever _field_order contains a field of unknown kind whose definition
\* has a packer of the table of primitive codes.
C12_PackerOfUnknownKindFailsToPack ==
    /\ UnknownTypeGeneratesNone
    /\ pc = "returned"
          /\ (\E i \in 1..Len(Order) : UnknownType(DefAt(i)) /\ TableCoded(DefAt(i)))
          => ~result.ok

\* the pack of a template with a field of unknown kind that has a packer
\* has stopped at that field
C12_Witness ==
    /\ pc = "returned"
    /\ ~result.ok
    /\ field_idx \in 1..Len(Order)
    /\ UnknownType(DefAt(field_idx))
    /\ TableCoded(DefAt(field_idx))
    /\ generated_data[NameAt(field_idx)] = NoneV


\* ------------------------------------------------------------------------
\* C14
\* ------------------------------------------------------------------------
\* the payload of the first k fields of _field_order as a function of the
\* arguments alone, or Fail when one of them cannot be packed
RECURSIVE PackedUpTo(_, _, _)
PackedUpTo(tpl, data, k) ==
    IF k = 0 THEN Ok(<<>>)
    ELSE LET before == PackedUpTo(tpl, data, k - 1)
             field == pack_field(impl, tpl, data, tpl.field_order[k])
         IN  IF before.ok /\ field.ok THEN Ok(before.bytes \o field.bytes)
             ELSE Fail

\* what a call returns, as a function of the arguments alone
PackOf(tpl, data) ==
    IF {"_field_order", "fields"} \subseteq tpl.keys
    THEN PackedUpTo(tpl, data, Len(tpl.field_order))
    ELSE Fail

\* _pack_generated_data is running
Packing == pc \in {"start", "loop"}

\* C14: _pack_generated_data is a pure function of (template, values): no
\* step of it changes the template, the value set or an attribute of the
\* shell (payload_settings, payload_json_template, the target, the
\* periodic interval), and what it returns is determined by the template
\* and the values alone, so that two calls with equal arguments return equal
\* results whatever operations ran before or between them.
C14_PureFunction ==
    [][Packing =>
          /\ UNCHANGED <<template, generated_data, shell_vars>>
          /\ pc' = "returned" => result' = PackOf(template, generated_data)]_vars

\* a call that follows a change of every attribute of the shell has
\* returned a payload of two fields
C14_Witness ==
    /\ pc = "returned"
    /\ result.ok
    /\ Len(result.bytes) = 3
    /\ current_application_id # <<>>
    /\ current_device_id # <<>>
    /\ periodic_interval = 60
    /\ payload_settings.extra # {}
    /\ payload_settings.fixed_hex_value # <<"C", "A", "F", "E", "0", "1">>
    /\ payload_json_template = <<template>>


\* ------------------------------------------------------------------------
\* C21
\* ------------------------------------------------------------------------
\* the document declares both keys and defines every name of _field_order
Acceptable(doc) ==
    /\ {"_field_order", "fields"} \subseteq doc.keys
    /\ \A i \in 1..Len(doc.field_order) : doc.field_order[i] \in DOMAIN doc.fields

\* the documents of the files that exist and hold JSON
FileDocuments ==
    {FILES[name].doc : name \in {n \in DOMAIN FILES : FILES[n].exists /\ FILES[n].json}}

\* C21: the schema the shell holds is the whole document of a file, it
\* declares both _field_order and fields and defines every name of
\* _field_order; after a load that was rejected (the file is missing, is no
\* JSON, lacks a key or names an undefined field) the shell holds no schema,
\* whatever it held before, and a json_template generation that follows
\* returns no payload.
C21_RejectedLoadHoldsNothing ==
    /\ payload_json_template # <<>>
          => /\ payload_json_template[1] \in FileDocuments
             /\ Acceptable(payload_json_template[1])
             /\ load_message = "loaded"
    /\ load_message = "error" => payload_json_template = <<>>
    /\ (load_message = "error" /\ pc = "payload"
           /\ payload_settings.type = "json_template")
          => ~raw_payload.ok

\* a generation has returned no payload after a load was rejected while a
\* schema was held (ttn-sim.py keeps the name of the file it held)
C21_Witness ==
    /\ load_message = "error"
    /\ payload_json_template = <<>>
    /\ payload_settings.type = "json_template"
    /\ payload_settings.json_template_file # <<>>
    /\ pc = "payload"
    /\ ~raw_payload.ok


\* ------------------------------------------------------------------------
\* C22
\* ------------------------------------------------------------------------
\* a string definition without packer that declares no length, or a
\* hex_string definition that declares no length_bytes
Lengthless(field_def) ==
    \/ /\ get(field_def.type, "None") = "string"
       /\ ~has_packer(field_def)
       /\ field_def.length = <<>>
    \/ /\ get(field_def.type, "None") = "hex_string"
       /\ field_def.length_bytes = <<>>

HasLengthless(tpl) == \E name \in DOMAIN tpl.fields : Lengthless(tpl.fields[name])

\* C22: the load rejects a schema with a string definition without packer
\* that declares no length and one with a hex_string definition that
\* declares no length_bytes, so the shell never holds such a schema, and
\* neither the value generator nor the packer ever works on one.
C22_LengthlessRejected ==
    /\ payload_json_template # <<>> => ~HasLengthless(payload_json_template[1])
    /\ InCall => ~HasLengthless(template)


\* ------------------------------------------------------------------------
\* C23
\* ------------------------------------------------------------------------
\* a definition of the schema declares a packer that is not a known one
HasUnknownPacker(tpl) ==
    \E name \in DOMAIN tpl.fields :
        /\ has_packer(tpl.fields[name])
        /\ ~KnownPacker(tpl.fields[name].packer[1])

\* C23: a definition with an unrecognized packer is always an error: the
\* load rejects the schema, so the shell never holds one, and
\* _pack_generated_data never returns a payload for a schema containing it.
C23_UnknownPackerIsAnError ==
    /\ payload_json_template # <<>> => ~HasUnknownPacker(payload_json_template[1])
    /\ (pc = "returned" /\ HasUnknownPacker(template)) => ~result.ok

\* the part of C23 about _pack_generated_data alone
C23_UnknownPackerNeverPacks ==
    (pc = "returned" /\ HasUnknownPacker(template)) => ~result.ok


\* ------------------------------------------------------------------------
\* C24
\* ------------------------------------------------------------------------
\* no name occurs twice in the sequence
Unique(names) ==
    \A i, j \in 1..Len(names) : names[i] = names[j] => i = j

\* C24: the _field_order of the schema the shell holds never repeats a name
\* (the load rejects a document that does), so that no call of
\* _pack_generated_data walks over one field twice.
C24_NoDuplicateNames ==
    /\ payload_json_template # <<>> => Unique(payload_json_template[1].field_order)
    /\ InCall => Unique(template.field_order)

\* a payload has been returned that holds the encoding of one field twice
C24_PackedTwice ==
    /\ pc = "returned"
    /\ result.ok
    /\ ~Unique(template.field_order)
    /\ Len(result.bytes) = 2


\* ------------------------------------------------------------------------
\* C25
\* ------------------------------------------------------------------------
\* an int or uint definition whose packer is absent or one of the integer
\* codes
IntegerField(field_def) ==
    /\ get(field_def.type, "None") \in {"int", "uint"}
    /\ \/ field_def.packer = <<>>
       \/ /\ Len(field_def.packer[1]) = 1
          /\ field_def.packer[1][1] \in INT_CODES

\* the default of 'max' by the width and the sign of the packer: 2^(8w)-1
\* for an unsigned code of w bytes, 2^(8w-1)-1 for a signed one, and the
\* 32-bit range of the type when there is no packer
WidthMax(field_def) ==
    IF field_def.packer = <<>>
    THEN IF field_def.type = <<"int">> THEN IntV(FALSE, <<127, 255, 255, 255>>)
         ELSE IntV(FALSE, Ones(4))
    ELSE LET c == field_def.packer[1][1]
             w == standard_size(c)
         IN  IF c \in SIGNED_CODES THEN IntV(FALSE, <<127>> \o Ones(w - 1))
             ELSE IntV(FALSE, Ones(w))

\* the bounds of the definition, with the defaults for an absent min or max
LowerBound(field_def) == get(field_def.min, IntV(FALSE, <<>>))

UpperBound(field_def) == get(field_def.max, WidthMax(field_def))

\* C25: for an int or uint field without 'max' the upper bound
\* _generate_value_from_field_def uses is 2^(8w)-1 for an unsigned packer of
\* w bytes, 2^(8w-1)-1 for a signed one and the 32-bit range without packer,
\* the lower bound without 'min' is 0, and the integer generated for the
\* field lies between the two bounds.
C25_DefaultRange ==
    InCall =>
        \A name \in DOMAIN template.fields :
            LET field_def == template.fields[name]
                value == generated_data[name]
            IN  IntegerField(field_def) =>
                    /\ field_def.max = <<>> =>
                           default_max(impl, field_def.type[1], field_def)
                               = [ok |-> TRUE, v |-> WidthMax(field_def)]
                    /\ value.k = "int"
                    /\ ~less_than(value, LowerBound(field_def))
                    /\ ~less_than(UpperBound(field_def), value)

\* the part of C25 about the lower bound: the integer generated for an int
\* or uint field is never below 'min', or below 0 when 'min' is absent
C25_NeverBelowMin ==
    InCall =>
        \A name \in DOMAIN template.fields :
            (IntegerField(template.fields[name]) /\ generated_data[name].k = "int")
                => ~less_than(generated_data[name], LowerBound(template.fields[name]))


\* ------------------------------------------------------------------------
\* C26
\* ------------------------------------------------------------------------
\* the alphabets by code point: 0-9, A-Z, a-z
DigitPoints == 48..57

UpperPoints == 65..90

LowerPoints == 97..122

\* the value is a text of n characters whose code points are all in points
TextOver(value, n, points) ==
    /\ value.k = "str"
    /\ Len(value.s) = n
    /\ \A i \in 1..Len(value.s) : CODE_POINT[value.s[i]] \in points

\* the charset names of a string definition
KNOWN_CHARSETS == {"alphanumeric", "hex", "ascii"}

\* a string definition that declares a length and the charset
StringWith(field_def, charsets) ==
    /\ get(field_def.type, "None") = "string"
    /\ field_def.length # <<>>
    /\ field_def.charset # <<>>
    /\ field_def.charset[1] \in charsets

\* the charset names of the template files
FileCharsets ==
    {FILES[name].doc.fields[f].charset[1] :
        <<name, f>> \in {p \in TEMPLATE_FILE_NAMES \X {"temp", "id"} :
                            /\ p[2] \in DOMAIN FILES[p[1]].doc.fields
                            /\ FILES[p[1]].doc.fields[p[2]].charset # <<>>}}

\* C26: for a string field whose charset is no known name the value
\* generated is never None: it is a text of 'length' characters, every one
\* of them a letter or a digit ([A-Za-z0-9]).
C26_UnknownCharsetIsAlphanumeric ==
    InCall =>
        \A name \in DOMAIN template.fields :
            StringWith(template.fields[name], FileCharsets \ KNOWN_CHARSETS)
                => TextOver(generated_data[name], template.fields[name].length[1],
                            DigitPoints \cup UpperPoints \cup LowerPoints)

\* a text of three uppercase letters has been generated for the charset
\* 'klingon'
C26_Witness ==
    /\ pc = "start"
    /\ template.fields["temp"].charset = <<"klingon">>
    /\ generated_data["temp"] = StrV(<<"Z", "Z", "Z">>)

\* ------------------------------------------------------------------------
\* C27
\* ------------------------------------------------------------------------
\* the code points of a known charset
CharsetPoints(charset) ==
    CASE charset = "alphanumeric" -> DigitPoints \cup UpperPoints \cup LowerPoints
      [] charset = "hex" -> DigitPoints \cup 97..102
      [] charset = "ascii" -> 32..126

\* C27: for a string field with length n and charset alphanumeric, hex or
\* ascii the value generated is a text of exactly n characters, each of the
\* charset's alphabet: A-Z a-z 0-9, 0-9 a-f, or the code points 0x20..0x7E.
C27_TextOfDeclaredCharset ==
    InCall =>
        \A name \in DOMAIN template.fields :
            StringWith(template.fields[name], KNOWN_CHARSETS)
                => TextOver(generated_data[name], template.fields[name].length[1],
                            CharsetPoints(template.fields[name].charset[1]))

\* the two-character text that alternates the last two printable characters
\* has been generated for the charset 'ascii'
C27_Witness ==
    /\ pc = "start"
    /\ template.fields["temp"].charset = <<"ascii">>
    /\ generated_data["temp"] = StrV(<<"}", "~">>)

\* ------------------------------------------------------------------------
\* C28
\* ------------------------------------------------------------------------
\* the lowercase digit of a value below 16
LowerHexDigit(n) ==
    CHOOSE c \in HEX_DIGITS : HEX_VALUE[c] = n /\ CODE_POINT[c] \notin UpperPoints

\* bytes.hex(): two lowercase digits per byte
HexRendering(bytes) ==
    [i \in 1..(2 * Len(bytes)) |->
        LET b == bytes[(i + 1) \div 2]
        IN  LowerHexDigit(IF i % 2 = 1 THEN b \div 16 ELSE b % 16)]

\* a hex_string definition without packer that declares length_bytes
HexBytesField(field_def) ==
    /\ get(field_def.type, "None") = "hex_string"
    /\ ~has_packer(field_def)
    /\ field_def.length_bytes # <<>>

\* C28: for a hex_string field with length_bytes n the value generated is a
\* text of exactly 2n characters, each a lowercase hex digit, and
\* _pack_generated_data adds for it exactly n bytes whose hex rendering is
\* that text.
C28_HexTextAndBytes ==
    /\ InCall =>
          \A name \in DOMAIN template.fields :
              HexBytesField(template.fields[name])
                  => TextOver(generated_data[name],
                              2 * template.fields[name].length_bytes[1],
                              DigitPoints \cup 97..102)
    /\ (/\ pc = "loop"
        /\ field_idx > 1
        /\ HexBytesField(field_def_of(template, template.field_order[field_idx - 1])))
          => /\ Len(packed)
                  = field_def_of(template, template.field_order[field_idx - 1]).length_bytes[1]
             /\ HexRendering(packed)
                  = generated_data[template.field_order[field_idx - 1]].s

\* the text efef has been generated for a field of two bytes and packed
C28_Witness ==
    /\ pc = "loop"
    /\ field_idx = 2
    /\ HexBytesField(template.fields["temp"])
    /\ generated_data["temp"] = StrV(<<"e", "f", "e", "f">>)
    /\ packed = <<239, 239>>


\* ------------------------------------------------------------------------
\* C29
\* ------------------------------------------------------------------------
\* the i-th field has a packer of the table that is wider than one byte
MultiByteAt(i) ==
    /\ Defined(i)
    /\ TableCoded(DefAt(i))
    /\ standard_size(DefAt(i).packer[1][1]) > 1

\* _pack_generated_data writes the field little-endian
PackedLittleEndian(field_def) == order_prefix(impl, field_def).prefix = <<"<">>

\* the lines of the generated source that read the field
ReadsOf(name) ==
    {k \in 1..Len(decoder.lines) :
        /\ decoder.lines[k].op \in {"read", "read.toString()"}
        /\ decoder.lines[k].name = name}

\* C29: whatever the byte_order of a field (absent, 'big', 'little' or any
\* other text), the source generate_decoder_function emits reads the field
\* in the byte order _pack_generated_data wrote it in.
C29_SameEndianness ==
    (GeneratorRan /\ decoder.ok) =>
        \A i \in 1..Len(Order) :
            MultiByteAt(i) =>
                \A k \in ReadsOf(NameAt(i)) :
                    decoder.lines[k].le = PackedLittleEndian(DefAt(i))

\* the same for the fields whose byte_order is absent, 'big' or 'little'
C29_SameEndiannessOfKnownOrders ==
    (GeneratorRan /\ decoder.ok) =>
        \A i \in 1..Len(Order) :
            (MultiByteAt(i) /\ get(DefAt(i).byte_order, "big") \in {"big", "little"}) =>
                \A k \in ReadsOf(NameAt(i)) :
                    decoder.lines[k].le = PackedLittleEndian(DefAt(i))


\* ------------------------------------------------------------------------
\* C30
\* ------------------------------------------------------------------------
\* the names of a sequence
Names(seq) == {seq[i] : i \in 1..Len(seq)}

Packable(field_def) ==
    LET ty == get(field_def.type, "None")
    IN  \/ /\ ty \in {"int", "uint"}
           /\ field_def.packer # <<>>
           /\ Len(field_def.packer[1]) = 1
           /\ field_def.packer[1][1] \in INT_CODES
           /\ field_def.min = <<>>
           /\ field_def.max = <<>>
        \/ /\ ty \in {"string", "hex_string"}
           /\ ~has_packer(field_def)
        \/ /\ ty = "choice"
           /\ field_def.values # <<>>
           /\ IF field_def.values[1].kind = "dict"
              THEN DOMAIN field_def.values[1].map # {}
              ELSE field_def.values[1].items # <<>>

\* C32: for a loaded template whose fields are all int/uint with an integer
\* code and no min/max, string, hex_string or choice with values, every
\* value set the generator produces is packed: the call of
\* _pack_generated_data that follows never returns None.
C32_GeneratedValuesPack ==
    (/\ pc = "returned"
     /\ \A name \in DOMAIN template.fields : Packable(template.fields[name]))
        => result.ok

\* the same for the templates of string and hex_string fields that declare
\* their length
C32_GeneratedTextsPack ==
    (/\ pc = "returned"
     /\ \A name \in DOMAIN template.fields :
           \/ StringWith(template.fields[name], FileCharsets)
           \/ HexBytesField(template.fields[name]))
        => result.ok

\* ------------------------------------------------------------------------
\* C36
\* ------------------------------------------------------------------------
\* C36: payload_settings['json_template_file'] is not None only while a
\* template is held: the recorded name never outlives the template it named.
C36_FileNameOnlyWithTemplate ==
    payload_settings.json_template_file # <<>> => payload_json_template # <<>>

\* the same for paste.py, whose load forgets the name on every failure
C36_FileNameOnlyWithTemplateInPaste ==
    (impl = "paste" /\ payload_settings.json_template_file # <<>>)
        => payload_json_template # <<>>


\* ------------------------------------------------------------------------
\* C37: a load_sim_config that fails keeps the loaded simulation configuration
\* ------------------------------------------------------------------------
\* the configuration files whose load fails: missing, not JSON, or without
\* "simulation_type"
FailingSimFiles ==
    {name \in SIM_FILE_NAMES :
        \/ ~SIM_FILES[name].exists
        \/ ~SIM_FILES[name].json
        \/ SIM_FILES[name].doc.simulation_type = <<>>}

\* the files that are missing or not JSON
UnreadableSimFiles ==
    {name \in SIM_FILE_NAMES : ~SIM_FILES[name].exists \/ ~SIM_FILES[name].json}

\* C37: a load_sim_config of a file that is missing, is not JSON or has no
\* 'simulation_type' leaves loaded_sim_type, loaded_sim_common_args,
\* loaded_sim_flags, loaded_sim_description and loaded_sim_config_file as they
\* were before the command
C37_FailedLoadKeepsConfiguration ==
    [][\A name \in FailingSimFiles :
          load_sim_config(name) => loaded_sim' = loaded_sim]_vars

\* the part of C37 that holds: a missing or unparsable file changes none of
\* the five attributes
C37_UnreadableFileKeepsConfiguration ==
    [][\A name \in UnreadableSimFiles :
          load_sim_config(name) => loaded_sim' = loaded_sim]_vars

\* the consequence C37 draws: the five attributes describe one file, or none
C37_DescribesOneFile ==
    \/ loaded_sim = NoSim
    \/ \E name \in SIM_FILE_NAMES :
          loaded_sim = load_sim_attributes(NoSim, name, SIM_FILES[name].doc)


\* ------------------------------------------------------------------------
\* C38: periodic_interval is a positive integer
\* ------------------------------------------------------------------------
\* a JSON value that is an integer greater than 0: the number itself, a text
\* that writes it, or a float without a fraction
PositiveInteger(v) ==
    CASE v.k = "int" -> ~v.neg /\ v.mag # <<>>
      [] v.k = "str" -> int(v.s).ok /\ int(v.s).n > 0
      [] v.k = "float" ->
            /\ ~v.neg
            /\ v.mag # <<>>
            /\ (v.exp >= 0 \/ number(v.mag) % (2 ^ (0 - v.exp)) = 0)
      [] OTHER -> FALSE

\* the configuration files whose "interval" is zero, negative or not an
\* integer
RejectedIntervalFiles ==
    {name \in ConfigFileNames :
        /\ SIM_FILES[name].doc.periodic_settings # <<>>
        /\ SIM_FILES[name].doc.periodic_settings[1].interval # <<>>
        /\ ~PositiveInteger(SIM_FILES[name].doc.periodic_settings[1].interval[1])}

\* C38: periodic_interval is a positive integer in every state, and a
\* load_sim_config whose 'interval' is zero, negative or not an integer leaves
\* it unchanged
C38_OnlyPositiveIntegerAccepted ==
    [][\A name \in RejectedIntervalFiles :
          load_sim_config(name) => periodic_interval' = periodic_interval]_vars

\* the part of C38 that holds: periodic_interval is a positive integer in
\* every state
C38_IntervalPositive == periodic_interval \in Nat /\ periodic_interval > 0


\* ------------------------------------------------------------------------
\* C31: no payload, no call of the CLI
\* ------------------------------------------------------------------------
\* the w bits of n, the most significant first
BitsOf(n, w) == [i \in 1..w |-> (n \div (2 ^ (w - i))) % 2]

\* the bits of the bytes
RECURSIVE AllBits(_)
AllBits(bytes) ==
    IF bytes = <<>> THEN <<>> ELSE BitsOf(bytes[1], 8) \o AllBits(Tail(bytes))

\* the character of RFC 4648 for a group of six bits
Base64Char(n) ==
    CASE n < 26 -> ASCII_PRINTABLE[n + 65 - 31]
      [] n >= 26 /\ n < 52 -> ASCII_PRINTABLE[n - 26 + 97 - 31]
      [] n >= 52 /\ n < 62 -> ASCII_PRINTABLE[n - 52 + 48 - 31]
      [] n = 62 -> "+"
      [] n = 63 -> "/"

\* the base64 text of the bytes: the bits in groups of six, the last group
\* filled with zeros, and "=" up to a multiple of four characters
Base64Text(bytes) ==
    LET bits == AllBits(bytes)
        groups == (Len(bits) + 5) \div 6
        bit(i) == IF i <= Len(bits) THEN bits[i] ELSE 0
        group(g) == 32 * bit(6 * g - 5) + 16 * bit(6 * g - 4) + 8 * bit(6 * g - 3)
                    + 4 * bit(6 * g - 2) + 2 * bit(6 * g - 1) + bit(6 * g)
    IN  [g \in 1..groups |-> Base64Char(group(g))]
        \o [i \in 1..((4 - (groups % 4)) % 4) |-> "="]

\* the word that follows the payload flag in a command line
PayloadWord(call) ==
    call[1 + CHOOSE i \in 1..(Len(call) - 1) : call[i] = uplink.payload_cli_flag_name]

\* the command line names the payload flag once, followed by a word
HasPayloadWord(call) ==
    Cardinality({i \in 1..(Len(call) - 1) : call[i] = uplink.payload_cli_flag_name}) = 1

\* C31: an uplink that needs a payload and whose _generate_payload_logic
\* returned none runs the CLI zero times; _pack_generated_data returns bytes
\* only as the payload of all the fields, and the one command line an uplink
\* with a payload hands to the CLI carries the base64 text of that payload
C31_NoPayloadNoCall ==
    /\ (pc = "returned" /\ uplink.runner >= 0 /\ result.ok)
          => result = PackOf(template, generated_data)
    /\ (pc = "done" /\ uplink.payload_is_needed)
          => IF raw_payload.ok
             THEN /\ Len(cli_calls) = 1
                  /\ HasPayloadWord(cli_calls[1])
                  /\ PayloadWord(cli_calls[1]) = Join(Base64Text(raw_payload.bytes))
             ELSE cli_calls = <<>>

\* do_simulate with a template loaded whose values did not pack: the uplink
\* is over and the CLI was not run
C31_Witness ==
    /\ pc = "done"
    /\ uplink.runner = 0
    /\ uplink.payload_is_needed
    /\ payload_settings.type = "json_template"
    /\ payload_json_template # <<>>
    /\ ~raw_payload.ok
    /\ cli_calls = <<>>

\* a periodic uplink handed the CLI the base64 text of a payload of two bytes
C31_CalledWithPayload ==
    /\ pc = "done"
    /\ uplink.runner > 0
    /\ Len(cli_calls) = 1
    /\ raw_payload.ok
    /\ Len(raw_payload.bytes) = 2
    /\ Len(PayloadWord(cli_calls[1])) = 4


\* ------------------------------------------------------------------------
\* C33: at most one periodic thread
\* ------------------------------------------------------------------------
\* the threads that are alive
Alive == {n \in 1..Len(threads) : threads[n] # "dead"}

\* a command that starts the periodic simulation: start_periodic_sim, or a
\* load_sim_config of a file with enabled_on_load
StartCommand ==
    \/ do_start_periodic_sim
    \/ \E name \in SIM_FILE_NAMES :
          /\ SIM_FILES[name].doc.periodic_settings # <<>>
          /\ SIM_FILES[name].doc.periodic_settings[1].enabled_on_load
          /\ load_sim_config(name)

\* C33: at most one periodic thread is alive in every state, and a start
\* issued while one is alive makes no thread and no stop event
C33_AtMostOneThread ==
    /\ [](Cardinality(Alive) <= 1)
    /\ [][(Alive # {} /\ StartCommand)
             => UNCHANGED <<threads, events, periodic_thread, stop_event>>]_vars

\* a second periodic simulation runs after the first was stopped: the first
\* thread is dead with its event set, the second is in an uplink
C33_Witness ==
    /\ Len(threads) = 2
    /\ threads[1] = "dead"
    /\ events[1]
    /\ threads[2] = "executing"
    /\ periodic_thread = 2
    /\ stop_event = 2
    /\ ~events[2]


\* ------------------------------------------------------------------------
\* C34: stop_periodic_sim returns, and leaves no periodic simulation
\* ------------------------------------------------------------------------
\* C34: a stop_periodic_sim issued while a periodic simulation runs returns,
\* with periodic_thread and stop_event None; while periodic_thread is None no
\* thread is alive and no periodic uplink runs; an exit issued while a
\* periodic simulation runs leaves the shell, after the same stop
C34_StopReturns ==
    /\ (cmd = "joining") ~> (cmd = "ready" /\ periodic_thread = 0 /\ stop_event = 0)
    /\ (cmd = "joining to exit")
          ~> (cmd = "exited" /\ periodic_thread = 0 /\ stop_event = 0)
    /\ [](periodic_thread = 0
             => /\ stop_event = 0
                /\ \A n \in 1..Len(threads) : threads[n] = "dead"
                /\ uplink.runner <= 0)

\* stop_periodic_sim has returned: the thread it stopped is dead, its event is
\* set, and the shell holds neither
C34_Witness ==
    /\ cmd = "ready"
    /\ Len(threads) = 1
    /\ threads[1] = "dead"
    /\ events[1]
    /\ periodic_thread = 0
    /\ stop_event = 0


\* ------------------------------------------------------------------------
\* C35: one template for the whole of an uplink
\* ------------------------------------------------------------------------
\* a periodic uplink is between the loop of line 304 and the return of
\* _pack_generated_data
PeriodicPacking == uplink.runner > 0 /\ pc \in {"start", "loop", "returned"}

\* C35: while the periodic thread runs beside config_payload commands, the
\* template an uplink packs with is the one its values were generated for:
\* the values are a value set of that template, one for each of its fields,
\* and no step changes the template between the generation and the return of
\* the packer
C35_OneTemplatePerUplink ==
    /\ [](PeriodicPacking
             => /\ generated_data \in GeneratedData(impl, template)
                /\ generated_names = items(template.fields))
    /\ [][(PeriodicPacking /\ pc \in {"start", "loop"}) => template' = template]_vars

\* a periodic uplink packs the values of the template it read while the
\* shell holds another template by now, or none
C35_Witness ==
    /\ PeriodicPacking
    /\ pc = "loop"
    /\ field_idx = 2
    /\ DOMAIN template.fields = {"id", "temp"}
    /\ payload_json_template # <<template>>
    /\ generated_data \in GeneratedData(impl, template)

====
